---- MODULE Spec2Model ----
(***************************************************************************)
(* Model of the rlgenes report core (src/src/utils/templateProcessor.ts):  *)
(* identifier extraction, zygosity classification, result aggregation,     *)
(* section summaries, the grand summary and the template transformer       *)
(* (metadata block, grand-summary placement, section ids, annotations and  *)
(* the subsection filter, the lead-line emphasis); of the handlers of the  *)
(* App component (src/src/App.tsx): file selection with its asynchronous   *)
(* parse, template load, the option toggles and report generation; of the  *)
(* format detector (src/src/utils/formatDetector.ts); and of the parser    *)
(* of src/src/utils/geneticDataParser.ts.                                  *)
(*                                                                         *)
(* JavaScript strings are sequences of one-character strings, so that      *)
(* toUpperCase, trim, concatenation and the identifier regular expression  *)
(* are computed character by character.  The JavaScript value `undefined`  *)
(* is the one-element sequence Undefined, which no string equals.          *)
(***************************************************************************)
EXTENDS Naturals, Integers, Sequences, FiniteSets, TLC

VARIABLES
    call,                       \* the exported function that is called
    pc,                         \* "entry", then "return" or "throw"
    allele1, allele2, rsId,     \* arguments of determineZygosity
    alleleReference,            \* AlleleData[] argument (shared by both)
    zygosity,                   \* value returned by determineZygosity
    rsIds, geneticData,         \* arguments of getSNPResults
    results,                    \* Map returned by getSNPResults
    content,                    \* argument of extractRSIds
    extracted,                  \* array returned by extractRSIds
    htmlContent, snpResults,    \* arguments of transformTemplate: the parsed
    showDetailedAnnotations,    \*   template, the result map and the flags
    showAllSubsections,
    transformed,                \* document returned by transformTemplate
    genomeFilename, genomeDate, \* optional arguments of transformTemplate
    grandSummaryHTML,           \* value of generateGrandSummaryHTML
    sectionSummaries,           \* array of calculateSectionSummaries
    now,                        \* the day the system clock shows
    previous,                   \* outputs of the previous invocation
    fileLines, format,          \* arguments of parseWithFormat
    app,                        \* the state hooks of the App component
    parses                      \* the parseGeneticDataFile promises

reportVars == <<genomeFilename, genomeDate, grandSummaryHTML,
                sectionSummaries, now, previous>>

parserVars == <<fileLines, format>>

appVars == <<app, parses>>

vars == <<call, pc, allele1, allele2, rsId, alleleReference, zygosity,
          rsIds, geneticData, results, content, extracted,
          htmlContent, snpResults, showDetailedAnnotations,
          showAllSubsections, transformed, reportVars, parserVars,
          appVars>>

----------------------------------------------------------------------------
(* JavaScript values *)

Undefined == <<"undefined">>
Pending   == "pending"          \* the call has not returned yet

Truthy(s) == s # Undefined /\ s # <<>>

LowerLetters == <<"a","b","c","d","e","f","g","h","i","j","k","l","m",
                  "n","o","p","q","r","s","t","u","v","w","x","y","z">>
UpperLetters == <<"A","B","C","D","E","F","G","H","I","J","K","L","M",
                  "N","O","P","Q","R","S","T","U","V","W","X","Y","Z">>
Digits       == {"0","1","2","3","4","5","6","7","8","9"}
WhiteSpace   == {" ", "\t", "\n"}

\* the upper-case letter of every lower-case letter
UpperOf ==
    [c \in {LowerLetters[i] : i \in 1..26} |->
        UpperLetters[CHOOSE i \in 1..26 : LowerLetters[i] = c]]

UpperChar(c) == IF c \in DOMAIN UpperOf THEN UpperOf[c] ELSE c

ToUpperCase(s) == [i \in 1..Len(s) |-> UpperChar(s[i])]

RECURSIVE TrimStart(_)
TrimStart(s) ==
    IF s # <<>> /\ Head(s) \in WhiteSpace THEN TrimStart(Tail(s)) ELSE s

RECURSIVE TrimEnd(_)
TrimEnd(s) ==
    IF s # <<>> /\ s[Len(s)] \in WhiteSpace
    THEN TrimEnd(SubSeq(s, 1, Len(s) - 1)) ELSE s

Trim(s) == TrimEnd(TrimStart(s))

\* the lower-case letter of every upper-case letter
LowerOf ==
    [c \in {UpperLetters[i] : i \in 1..26} |->
        LowerLetters[CHOOSE i \in 1..26 : UpperLetters[i] = c]]

LowerChar(c) == IF c \in DOMAIN LowerOf THEN LowerOf[c] ELSE c

ToLowerCase(s) == [i \in 1..Len(s) |-> LowerChar(s[i])]

RECURSIVE Concat(_)
Concat(ss) == IF ss = <<>> THEN <<>> ELSE Head(ss) \o Concat(Tail(ss))

RECURSIVE Join(_, _)
Join(parts, sep) ==
    IF parts = <<>> THEN <<>>
    ELSE IF Len(parts) = 1 THEN parts[1]
    ELSE parts[1] \o sep \o Join(Tail(parts), sep)

\* String.prototype.includes
Includes(s, sub) ==
    \E p \in 1..(Len(s) - Len(sub) + 1) :
        SubSeq(s, p, p + Len(sub) - 1) = sub

----------------------------------------------------------------------------
(* Identifier extractor *)

\* \w of a JavaScript regular expression
WordChars ==
    {LowerLetters[i] : i \in 1..26} \cup {UpperLetters[i] : i \in 1..26}
        \cup Digits \cup {"_"}

IsWordChar(c) == c \in WordChars

\* \b at position p of s, that is between s[p-1] and s[p]
WordBoundary(s, p) ==
    (p > 1 /\ IsWordChar(s[p - 1])) # (p <= Len(s) /\ IsWordChar(s[p]))

\* the first position at or after p that holds no digit
RECURSIVE DigitsEnd(_, _)
DigitsEnd(s, p) ==
    IF p <= Len(s) /\ s[p] \in Digits THEN DigitsEnd(s, p + 1) ELSE p

\* /\bRS\d+\b/i tried at position p: the position after the match, or 0.
\* \d+ is greedy; giving a digit back leaves a digit on both sides of the
\* closing \b, so only the whole run of digits can match.
MatchEnd(s, p) ==
    IF /\ p + 2 <= Len(s)
       /\ WordBoundary(s, p)
       /\ UpperChar(s[p]) = "R"
       /\ UpperChar(s[p + 1]) = "S"
       /\ s[p + 2] \in Digits
       /\ WordBoundary(s, DigitsEnd(s, p + 2))
    THEN DigitsEnd(s, p + 2)
    ELSE 0

\* content.match(/\bRS\d+\b/gi): the matches from position p on, left to
\* right, each search resuming after the previous match
RECURSIVE MatchAll(_, _)
MatchAll(s, p) ==
    IF p > Len(s) THEN <<>>
    ELSE IF MatchEnd(s, p) # 0
    THEN <<SubSeq(s, p, MatchEnd(s, p) - 1)>> \o MatchAll(s, MatchEnd(s, p))
    ELSE MatchAll(s, p + 1)

\* [...new Set(array)]: the first occurrence of every value, in order
RECURSIVE SetOf(_, _)
SetOf(array, acc) ==
    IF array = <<>> THEN acc
    ELSE SetOf(Tail(array),
               IF \E i \in 1..Len(acc) : acc[i] = Head(array)
               THEN acc ELSE Append(acc, Head(array)))

\* Variant of extractRSIds: the matches are upper-cased but not deduplicated.
extractRSIds_noSet(text) ==
    LET matches == MatchAll(text, 1)
    IN  [i \in 1..Len(matches) |-> ToUpperCase(matches[i])]

extractRSIds(text) ==
    LET matches == MatchAll(text, 1)
    IN  IF matches = <<>> THEN <<>>
        ELSE SetOf([i \in 1..Len(matches) |-> ToUpperCase(matches[i])], <<>>)

----------------------------------------------------------------------------
(* Zygosity classifier *)

Zygosity == {"Homozygous", "Heterozygous", "Wild", "Data Missing",
             "Reference Missing"}

\* alleleReference.find(ref => ref.rsId.toUpperCase() === rsId.toUpperCase()):
\* the first matching entry as <<entry>>, or <<>> when find returns undefined.
FindReference(table, id) ==
    LET hits == {i \in 1..Len(table) :
                    ToUpperCase(table[i].rsId) = ToUpperCase(id)}
    IN  IF hits = {} THEN <<>>
        ELSE <<table[CHOOSE i \in hits : \A j \in hits : i <= j]>>

\* reference?.problemAllele and reference?.gene
OptProblemAllele(reference) ==
    IF reference = <<>> THEN Undefined ELSE reference[1].problemAllele

OptGene(reference) ==
    IF reference = <<>> THEN Undefined ELSE reference[1].gene

\* Variants of determineZygosity with one plausible defect each.
\* (a) the reference is consulted before the missing-genotype check
determineZygosity_referenceFirst(a1, a2, id, table) ==
    LET reference == FindReference(table, id)
    IN  IF ~(Truthy(OptProblemAllele(reference))
             /\ Trim(reference[1].problemAllele) # <<>>)
        THEN "Reference Missing"
        ELSE IF a1 = <<"-">> \/ a2 = <<"-">> \/ ~Truthy(a1) \/ ~Truthy(a2)
        THEN "Data Missing"
        ELSE
          LET effectAllele == ToUpperCase(reference[1].problemAllele)
              allele1MatchesEffect == ToUpperCase(a1) = effectAllele
              allele2MatchesEffect == ToUpperCase(a2) = effectAllele
          IN  IF allele1MatchesEffect /\ allele2MatchesEffect
              THEN "Homozygous"
              ELSE IF allele1MatchesEffect \/ allele2MatchesEffect
              THEN "Heterozygous"
              ELSE "Wild"

\* (b) the observed alleles are compared without upper-casing them
determineZygosity_rawAlleles(a1, a2, id, table) ==
    IF a1 = <<"-">> \/ a2 = <<"-">> \/ ~Truthy(a1) \/ ~Truthy(a2)
    THEN "Data Missing"
    ELSE
      LET reference == FindReference(table, id)
      IN  IF Truthy(OptProblemAllele(reference))
             /\ Trim(reference[1].problemAllele) # <<>>
          THEN
            LET effectAllele == ToUpperCase(reference[1].problemAllele)
                allele1MatchesEffect == a1 = effectAllele
                allele2MatchesEffect == a2 = effectAllele
            IN  IF allele1MatchesEffect /\ allele2MatchesEffect
                THEN "Homozygous"
                ELSE IF allele1MatchesEffect \/ allele2MatchesEffect
                THEN "Heterozygous"
                ELSE "Wild"
          ELSE "Reference Missing"

\* (c) the retired fallback: without an effect allele, compare the two
\*     observed alleles with each other
determineZygosity_fallbackMatching(a1, a2, id, table) ==
    IF a1 = <<"-">> \/ a2 = <<"-">> \/ ~Truthy(a1) \/ ~Truthy(a2)
    THEN "Data Missing"
    ELSE
      LET normalizedAllele1 == ToUpperCase(a1)
          normalizedAllele2 == ToUpperCase(a2)
          reference == FindReference(table, id)
      IN  IF Truthy(OptProblemAllele(reference))
             /\ Trim(reference[1].problemAllele) # <<>>
          THEN
            LET effectAllele == ToUpperCase(reference[1].problemAllele)
                allele1MatchesEffect == normalizedAllele1 = effectAllele
                allele2MatchesEffect == normalizedAllele2 = effectAllele
            IN  IF allele1MatchesEffect /\ allele2MatchesEffect
                THEN "Homozygous"
                ELSE IF allele1MatchesEffect \/ allele2MatchesEffect
                THEN "Heterozygous"
                ELSE "Wild"
          ELSE IF normalizedAllele1 = normalizedAllele2
          THEN "Homozygous"
          ELSE "Heterozygous"

\* (d) the effect allele is dereferenced without the guard: a missing
\*     reference or an undefined effect allele raises a TypeError
determineZygosity_unguarded(a1, a2, id, table) ==
    IF a1 = <<"-">> \/ a2 = <<"-">> \/ ~Truthy(a1) \/ ~Truthy(a2)
    THEN "Data Missing"
    ELSE
      LET normalizedAllele1 == ToUpperCase(a1)
          normalizedAllele2 == ToUpperCase(a2)
          reference == FindReference(table, id)
      IN  IF OptProblemAllele(reference) = Undefined
          THEN "TypeError"
          ELSE IF Trim(reference[1].problemAllele) # <<>>
          THEN
            LET effectAllele == ToUpperCase(reference[1].problemAllele)
                allele1MatchesEffect == normalizedAllele1 = effectAllele
                allele2MatchesEffect == normalizedAllele2 = effectAllele
            IN  IF allele1MatchesEffect /\ allele2MatchesEffect
                THEN "Homozygous"
                ELSE IF allele1MatchesEffect \/ allele2MatchesEffect
                THEN "Heterozygous"
                ELSE "Wild"
          ELSE "Reference Missing"

determineZygosity(a1, a2, id, table) ==
    IF a1 = <<"-">> \/ a2 = <<"-">> \/ ~Truthy(a1) \/ ~Truthy(a2)
    THEN "Data Missing"
    ELSE
      LET normalizedAllele1 == ToUpperCase(a1)
          normalizedAllele2 == ToUpperCase(a2)
          reference == FindReference(table, id)
      IN  IF Truthy(OptProblemAllele(reference))
             /\ Trim(reference[1].problemAllele) # <<>>
          THEN
            LET effectAllele == ToUpperCase(reference[1].problemAllele)
                allele1MatchesEffect == normalizedAllele1 = effectAllele
                allele2MatchesEffect == normalizedAllele2 = effectAllele
            IN  IF allele1MatchesEffect /\ allele2MatchesEffect
                THEN "Homozygous"
                ELSE IF allele1MatchesEffect \/ allele2MatchesEffect
                THEN "Heterozygous"
                ELSE "Wild"
          ELSE "Reference Missing"

----------------------------------------------------------------------------
(* Result aggregator *)

\* A JavaScript Map is the sequence of its entries in insertion order.
\* Map.prototype.set keeps the position of a key that is already present.
MapHas(m, k) == \E i \in 1..Len(m) : m[i].key = k

\* Variant of MapSet: a key that is set again moves to the end.
MapSet_moveToEnd(m, k, v) ==
    Append(SelectSeq(m, LAMBDA e : e.key # k), [key |-> k, value |-> v])

MapSet(m, k, v) ==
    IF MapHas(m, k)
    THEN [i \in 1..Len(m) |->
            IF m[i].key = k THEN [key |-> k, value |-> v] ELSE m[i]]
    ELSE Append(m, [key |-> k, value |-> v])

\* Map.prototype.get: <<value>>, or <<>> for undefined.
MapGet(m, k) ==
    IF MapHas(m, k)
    THEN <<m[CHOOSE i \in 1..Len(m) : m[i].key = k].value>>
    ELSE <<>>

MapKeys(m) == [i \in 1..Len(m) |-> m[i].key]

\* geneticData[key]: <<entry>>, or <<>> for undefined.
GeneticDataGet(gd, k) == IF k \in DOMAIN gd THEN <<gd[k]>> ELSE <<>>

\* Variants of SNPResultFor.
\* (a) the reference is not consulted when the genotype is absent
SNPResultFor_bareWhenAbsent(id, gd, table) ==
    LET data == GeneticDataGet(gd, ToUpperCase(id))
        reference == FindReference(table, id)
    IN  IF data = <<>>
        THEN [rsId |-> id,
              zygosity |-> "Data Missing",
              alleles |-> <<"-", "-">>,
              effectAllele |-> Undefined,
              gene |-> Undefined]
        ELSE
          [rsId |-> id,
           zygosity |-> determineZygosity(data[1].allele1, data[1].allele2,
                                          id, table),
           alleles |-> data[1].allele1 \o data[1].allele2,
           effectAllele |-> OptProblemAllele(reference),
           gene |-> OptGene(reference)]

\* (b) the observed alleles are stored upper-cased
SNPResultFor_upperAlleles(id, gd, table) ==
    LET data == GeneticDataGet(gd, ToUpperCase(id))
        reference == FindReference(table, id)
    IN  IF data = <<>>
        THEN [rsId |-> id,
              zygosity |-> "Data Missing",
              alleles |-> <<"-", "-">>,
              effectAllele |-> OptProblemAllele(reference),
              gene |-> OptGene(reference)]
        ELSE
          [rsId |-> id,
           zygosity |-> determineZygosity(data[1].allele1, data[1].allele2,
                                          id, table),
           alleles |-> ToUpperCase(data[1].allele1 \o data[1].allele2),
           effectAllele |-> OptProblemAllele(reference),
           gene |-> OptGene(reference)]

\* (c) the effect allele and gene are taken from the last entry of the
\* reference table for the identifier
SNPResultFor_lastReference(id, gd, table) ==
    LET data == GeneticDataGet(gd, ToUpperCase(id))
        hits == {i \in 1..Len(table) :
                    ToUpperCase(table[i].rsId) = ToUpperCase(id)}
        reference == IF hits = {} THEN <<>>
                     ELSE <<table[CHOOSE i \in hits : \A j \in hits : j <= i]>>
    IN  IF data = <<>>
        THEN [rsId |-> id,
              zygosity |-> "Data Missing",
              alleles |-> <<"-", "-">>,
              effectAllele |-> OptProblemAllele(reference),
              gene |-> OptGene(reference)]
        ELSE
          [rsId |-> id,
           zygosity |-> determineZygosity(data[1].allele1, data[1].allele2,
                                          id, table),
           alleles |-> data[1].allele1 \o data[1].allele2,
           effectAllele |-> OptProblemAllele(reference),
           gene |-> OptGene(reference)]

\* The SNPResult that one iteration of the loop of getSNPResults stores
\* for the identifier id.
SNPResultFor(id, gd, table) ==
    LET data == GeneticDataGet(gd, ToUpperCase(id))
        reference == FindReference(table, id)
    IN  IF data = <<>>
        THEN [rsId |-> id,
              zygosity |-> "Data Missing",
              alleles |-> <<"-", "-">>,
              effectAllele |-> OptProblemAllele(reference),
              gene |-> OptGene(reference)]
        ELSE
          [rsId |-> id,
           zygosity |-> determineZygosity(data[1].allele1, data[1].allele2,
                                          id, table),
           alleles |-> data[1].allele1 \o data[1].allele2,
           effectAllele |-> OptProblemAllele(reference),
           gene |-> OptGene(reference)]

\* The loop of getSNPResults.  The outcome is [threw, map]: an exception
\* raised by determineZygosity ends the loop and no map is returned.
RECURSIVE SNPResultsLoop(_, _, _, _)
SNPResultsLoop(ids, gd, table, acc) ==
    IF ids = <<>> THEN [threw |-> FALSE, map |-> acc]
    ELSE LET r == SNPResultFor(Head(ids), gd, table)
         IN  IF r.zygosity = "TypeError"
             THEN [threw |-> TRUE, map |-> <<>>]
             ELSE SNPResultsLoop(Tail(ids), gd, table,
                                 MapSet(acc, ToUpperCase(Head(ids)), r))

getSNPResults(ids, gd, table) == SNPResultsLoop(ids, gd, table, <<>>)

----------------------------------------------------------------------------
(* Section summaries *)

\* element.textContent: the text nodes below the element, nothing between
TextContent(el) == Concat(el.texts)

\* heading.textContent?.trim() || 'Unknown Section'
SectionName(heading) ==
    IF Trim(TextContent(heading)) = <<>>
    THEN <<"U", "n", "k", "n", "o", "w", "n", " ", "S", "e", "c", "t", "i", "o", "n">>
    ELSE Trim(TextContent(heading))

\* sectionName.toLowerCase().includes('intro')
IsIntro(sectionName) ==
    Includes(ToLowerCase(sectionName), <<"i", "n", "t", "r", "o">>)

\* The while loop of lines 821-826 started at element i: the text contents
\* of the sibling elements up to the next h3.  The body of the template is
\* flat: every element of the sequence is a sibling of the headings.
RECURSIVE SectionContent(_, _)
SectionContent(doc, i) ==
    IF i > Len(doc) \/ doc[i].tag = "h3" THEN <<>>
    ELSE <<TextContent(doc[i])>> \o SectionContent(doc, i + 1)

\* one counter of the forEach of lines 842-863: the identifiers that have
\* a result in the given state
CountState(ids, map, state) ==
    Cardinality({k \in 1..Len(ids) :
                    /\ MapHas(map, ToUpperCase(ids[k]))
                    /\ MapGet(map, ToUpperCase(ids[k]))[1].zygosity = state})

RECURSIVE GCD(_, _)
GCD(a, b) == IF b = 0 THEN a ELSE GCD(b, a % b)

\* Variant of Percent: the fraction is not scaled to a percentage.
Percent_noScale(count, totalCount) ==
    IF totalCount = 0 THEN [num |-> 0, den |-> 0]
    ELSE [num |-> count \div GCD(count, totalCount),
          den |-> totalCount \div GCD(count, totalCount)]

\* (count / totalCount) * 100 as a fraction in lowest terms; 0 / 0 is NaN,
\* written 0/0.  The counts are small, so the JavaScript double is the
\* correctly rounded value of the fraction and different fractions give
\* different doubles.
Percent(count, totalCount) ==
    IF totalCount = 0 THEN [num |-> 0, den |-> 0]
    ELSE [num |-> (count * 100) \div GCD(count * 100, totalCount),
          den |-> totalCount \div GCD(count * 100, totalCount)]

\* Variant of SkipsSection: only intro sections are skipped.
SkipsSection_introOnly(sectionName, ids) == IsIntro(sectionName)

\* the two early returns of the forEach callback (lines 815 and 831)
SkipsSection(sectionName, ids) == IsIntro(sectionName) \/ Len(ids) = 0

\* the SectionSummary pushed for the heading at position i (lines 865-880)
SectionSummaryAt(doc, i, map) ==
    LET ids == extractRSIds(Join(SectionContent(doc, i + 1), <<" ">>))
        totalCount == Len(ids)
    IN  [sectionName |-> SectionName(doc[i]),
         heterozygousCount |-> CountState(ids, map, "Heterozygous"),
         homozygousCount |-> CountState(ids, map, "Homozygous"),
         wildCount |-> CountState(ids, map, "Wild"),
         missingCount |-> CountState(ids, map, "Data Missing"),
         referenceMissingCount |-> CountState(ids, map, "Reference Missing"),
         totalCount |-> totalCount,
         heterozygousPercent |->
             Percent(CountState(ids, map, "Heterozygous"), totalCount),
         homozygousPercent |->
             Percent(CountState(ids, map, "Homozygous"), totalCount),
         wildPercent |-> Percent(CountState(ids, map, "Wild"), totalCount),
         missingPercent |->
             Percent(CountState(ids, map, "Data Missing"), totalCount),
         referenceMissingPercent |->
             Percent(CountState(ids, map, "Reference Missing"), totalCount)]

\* headings.forEach of lines 811-881 from position i on
RECURSIVE SummariesFrom(_, _, _)
SummariesFrom(doc, i, map) ==
    IF i > Len(doc) THEN <<>>
    ELSE IF doc[i].tag # "h3" THEN SummariesFrom(doc, i + 1, map)
    ELSE IF SkipsSection(SectionName(doc[i]),
                         extractRSIds(Join(SectionContent(doc, i + 1),
                                           <<" ">>)))
    THEN SummariesFrom(doc, i + 1, map)
    ELSE <<SectionSummaryAt(doc, i, map)>> \o SummariesFrom(doc, i + 1, map)

calculateSectionSummaries(doc, map) == SummariesFrom(doc, 1, map)

----------------------------------------------------------------------------
(* Grand summary *)

\* a.homozygousPercent is below b.homozygousPercent; false when either is
\* NaN, as every comparison with NaN is
PercentBelow(a, b) == a.num * b.den < b.num * a.den

\* One insertion of a stable sort with the comparator
\* (a, b) => b.homozygousPercent - a.homozygousPercent: the summary goes
\* behind every summary that does not sort after it.
RECURSIVE InsertSorted(_, _)
InsertSorted(sorted, summary) ==
    IF sorted = <<>> THEN <<summary>>
    ELSE IF PercentBelow(Head(sorted).homozygousPercent,
                         summary.homozygousPercent)
    THEN <<summary>> \o sorted
    ELSE <<Head(sorted)>> \o InsertSorted(Tail(sorted), summary)

\* Variant of SortedSummaries: the summaries stay in document order.
SortedSummaries_unsorted(summaries, acc) == summaries

\* [...summaries].sort(...) of line 960, Array.prototype.sort being stable
RECURSIVE SortedSummaries(_, _)
SortedSummaries(summaries, acc) ==
    IF summaries = <<>> THEN acc
    ELSE SortedSummaries(Tail(summaries), InsertSorted(acc, Head(summaries)))

\* Variant of GrandTotals: the total is the largest section total.
RECURSIVE GrandTotals_largestTotal(_)
GrandTotals_largestTotal(summaries) ==
    IF summaries = <<>>
    THEN [totalSNPs |-> 0, homozygousCount |-> 0, heterozygousCount |-> 0,
          wildCount |-> 0, missingCount |-> 0, referenceMissingCount |-> 0]
    ELSE LET acc == GrandTotals_largestTotal(
                        SubSeq(summaries, 1, Len(summaries) - 1))
             summary == summaries[Len(summaries)]
         IN  [totalSNPs |-> IF summary.totalCount > acc.totalSNPs
                            THEN summary.totalCount ELSE acc.totalSNPs,
              homozygousCount |-> acc.homozygousCount + summary.homozygousCount,
              heterozygousCount |->
                  acc.heterozygousCount + summary.heterozygousCount,
              wildCount |-> acc.wildCount + summary.wildCount,
              missingCount |-> acc.missingCount + summary.missingCount,
              referenceMissingCount |->
                  acc.referenceMissingCount + summary.referenceMissingCount]

\* summaries.reduce(...) of lines 963-973
RECURSIVE GrandTotals(_)
GrandTotals(summaries) ==
    IF summaries = <<>>
    THEN [totalSNPs |-> 0, homozygousCount |-> 0, heterozygousCount |-> 0,
          wildCount |-> 0, missingCount |-> 0, referenceMissingCount |-> 0]
    ELSE LET acc == GrandTotals(SubSeq(summaries, 1, Len(summaries) - 1))
             summary == summaries[Len(summaries)]
         IN  [totalSNPs |-> acc.totalSNPs + summary.totalCount,
              homozygousCount |-> acc.homozygousCount + summary.homozygousCount,
              heterozygousCount |->
                  acc.heterozygousCount + summary.heterozygousCount,
              wildCount |-> acc.wildCount + summary.wildCount,
              missingCount |-> acc.missingCount + summary.missingCount,
              referenceMissingCount |->
                  acc.referenceMissingCount + summary.referenceMissingCount]

\* percent.toFixed(1) as a number of tenths, halves rounded up; -1 is the
\* text 'NaN'
ToFixed1(percent) ==
    IF percent.den = 0 THEN -1
    ELSE (percent.num * 20 + percent.den) \div (2 * percent.den)

\* the characters that /[^a-z0-9]/ does not match
LowerAlnum == {LowerLetters[i] : i \in 1..26} \cup Digits

\* the first position at or after p that holds a character of [a-z0-9]
RECURSIVE RunEnd(_, _)
RunEnd(s, p) ==
    IF p <= Len(s) /\ s[p] \notin LowerAlnum THEN RunEnd(s, p + 1) ELSE p

\* s.replace(/[^a-z0-9]+/g, '-') from position p on
RECURSIVE ReplaceRuns(_, _)
ReplaceRuns(s, p) ==
    IF p > Len(s) THEN <<>>
    ELSE IF s[p] \in LowerAlnum THEN <<s[p]>> \o ReplaceRuns(s, p + 1)
    ELSE <<"-">> \o ReplaceRuns(s, RunEnd(s, p))

\* Variant of getSectionIdLink: every character outside [a-z0-9] becomes a
\* hyphen of its own.
getSectionIdLink_perCharacter(sectionName) ==
    <<"s", "e", "c", "t", "i", "o", "n", "-">>
        \o [i \in 1..Len(sectionName) |->
               IF LowerChar(sectionName[i]) \in LowerAlnum
               THEN LowerChar(sectionName[i]) ELSE "-"]

\* getSectionId of generateGrandSummaryHTML (lines 980-982)
getSectionIdLink(sectionName) ==
    <<"s", "e", "c", "t", "i", "o", "n", "-">> \o ReplaceRuns(ToLowerCase(sectionName), 1)

\* one <tr> of lines 984-1011: the link, the summary it shows and the
\* percentages as printed
SummaryRow(summary, detailed) ==
    [href |-> <<"#">> \o getSectionIdLink(summary.sectionName),
     summary |-> summary,
     homozygousText |-> ToFixed1(summary.homozygousPercent),
     heterozygousText |-> ToFixed1(summary.heterozygousPercent),
     wildText |-> ToFixed1(summary.wildPercent),
     missingText |-> ToFixed1(summary.missingPercent),
     referenceMissingShown |-> detailed]

\* The rendered grand summary: the totals of the header paragraph and the
\* rows of the table.
generateGrandSummaryHTML(summaries, detailed) ==
    LET sortedSummaries == SortedSummaries(summaries, <<>>)
        grandTotals == GrandTotals(summaries)
    IN  [grandTotals |-> grandTotals,
         snpsWithData |-> grandTotals.totalSNPs - grandTotals.missingCount,
         homozygousPercent |->
             IF grandTotals.totalSNPs > 0
             THEN ToFixed1(Percent(grandTotals.homozygousCount,
                                   grandTotals.totalSNPs))
             ELSE 0,
         heterozygousPercent |->
             IF grandTotals.totalSNPs > 0
             THEN ToFixed1(Percent(grandTotals.heterozygousCount,
                                   grandTotals.totalSNPs))
             ELSE 0,
         rows |-> [k \in 1..Len(sortedSummaries) |->
                     SummaryRow(sortedSummaries[k], detailed)]]

----------------------------------------------------------------------------
(* Document transformer: identifier substitution and subsection filter *)

\* The parsed template is the sequence of its elements in document order;
\* an element has a tag, a class attribute and the text nodes below it in
\* document order (child elements such as <br> or <span> separate text
\* nodes and add no text).  The glyph U+2601 and the variation selector
\* U+FE0F are one character each.

\* Variant of DetailedInfo: every state shows alleles, effect allele and
\* gene.
DetailedInfo_everyField(result, detailed) ==
    IF ~detailed THEN <<>>
    ELSE
      LET allelesPart == IF Truthy(result.alleles)
                         THEN <<<<"A", "l", "l", "e", "l", "e", "s", ":", " ">> \o result.alleles>>
                         ELSE <<>>
          effectPart  == IF Truthy(result.effectAllele)
                         THEN <<<<"E", "f", "f", "e", "c", "t", ":", " ">> \o result.effectAllele>>
                         ELSE <<>>
          genePart    == IF Truthy(result.gene)
                         THEN <<<<"G", "e", "n", "e", ":", " ">> \o result.gene>>
                         ELSE <<>>
          parts == allelesPart \o effectPart \o genePart
      IN  IF Len(parts) > 0
          THEN <<" ", "(">> \o Join(parts, <<",", " ">>) \o <<")">>
          ELSE <<>>

\* the text of the parenthetical detail suffix (lines 627-651)
DetailedInfo(result, detailed) ==
    IF ~detailed THEN <<>>
    ELSE
      LET allelesPart == IF Truthy(result.alleles)
                         THEN <<<<"A", "l", "l", "e", "l", "e", "s", ":", " ">> \o result.alleles>>
                         ELSE <<>>
          effectPart  == IF Truthy(result.effectAllele)
                         THEN <<<<"E", "f", "f", "e", "c", "t", ":", " ">> \o result.effectAllele>>
                         ELSE <<>>
          genePart    == IF Truthy(result.gene)
                         THEN <<<<"G", "e", "n", "e", ":", " ">> \o result.gene>>
                         ELSE <<>>
          parts ==
            IF result.zygosity \in {"Homozygous", "Heterozygous", "Wild"}
            THEN allelesPart \o effectPart \o genePart
            ELSE IF result.zygosity = "Reference Missing"
            THEN allelesPart
            ELSE IF result.zygosity = "Data Missing"
            THEN effectPart \o genePart
            ELSE <<>>
      IN  IF Len(parts) > 0
          THEN <<" ", "(">> \o Join(parts, <<",", " ">>) \o <<")">>
          ELSE <<>>

\* A piece of markup: text with the colour, weight and size of the span
\* around it ("" where the markup sets none).
Plain(text) == [text |-> text, color |-> "", weight |-> "", size |-> ""]

Styled(text, color, weight) ==
    [text |-> text, color |-> color, weight |-> weight, size |-> ""]

\* the text of a sequence of pieces
RECURSIVE PiecesText(_)
PiecesText(pieces) ==
    IF pieces = <<>> THEN <<>>
    ELSE Head(pieces).text \o PiecesText(Tail(pieces))

\* detailedInfo as markup: a space, then the parenthesis in a small span
DetailedPieces(result, detailed) ==
    IF DetailedInfo(result, detailed) = <<>> THEN <<>>
    ELSE <<Plain(<<" ">>),
           [text |-> Tail(DetailedInfo(result, detailed)),
            color |-> "#666", weight |-> "", size |-> "0.85em"]>>

\* Variant of AnnotationPieces: Heterozygous is styled like Homozygous.
AnnotationPieces_sameStyle(match, map, detailed) ==
    LET result == MapGet(map, ToUpperCase(match))
    IN  IF result = <<>>
        THEN <<Styled(match \o <<" ", "[", "D", "a", "t", "a", " ", "M", "i", "s", "s", "i", "n", "g", "]">>, "grey", "")>>
        ELSE
          LET z == result[1].zygosity
              detailedInfo == DetailedPieces(result[1], detailed)
          IN  IF z = "Homozygous"
              THEN <<Plain(match \o <<" ">>),
                     Styled(<<"U+2601", "U+FE0F", " ", "H", "o", "m", "o", "z", "y", "g", "o", "u", "s">>, "red", "bold")>>
                     \o detailedInfo
              ELSE IF z = "Heterozygous"
              THEN <<Plain(match \o <<" ">>),
                     Styled(<<"U+2601", "U+FE0F", " ", "H", "e", "t", "e", "r", "o", "z", "y", "g", "o", "u", "s">>, "red", "bold")>>
                     \o detailedInfo
              ELSE IF z = "Wild"
              THEN <<Plain(match \o <<" ">>),
                     Styled(<<"W", "i", "l", "d">>, "black", "")>>
                     \o detailedInfo
              ELSE IF z = "Data Missing"
              THEN <<Styled(match \o <<" ", "[", "D", "a", "t", "a", " ", "M", "i", "s", "s", "i", "n", "g", "]">>, "grey", "")>>
                     \o detailedInfo
              ELSE IF z = "Reference Missing"
              THEN <<Styled(match \o <<" ", "[", "R", "e", "f", "e", "r", "e", "n", "c", "e", " ", "M", "i", "s", "s", "i", "n", "g", "]">>, "grey", "")>>
                     \o detailedInfo
              ELSE <<Plain(match)>>

\* the markup that replaces one matched identifier (lines 617-668)
AnnotationPieces(match, map, detailed) ==
    LET result == MapGet(map, ToUpperCase(match))
    IN  IF result = <<>>
        THEN <<Styled(match \o <<" ", "[", "D", "a", "t", "a", " ", "M", "i", "s", "s", "i", "n", "g", "]">>, "grey", "")>>
        ELSE
          LET z == result[1].zygosity
              detailedInfo == DetailedPieces(result[1], detailed)
          IN  IF z = "Homozygous"
              THEN <<Plain(match \o <<" ">>),
                     Styled(<<"U+2601", "U+FE0F", " ", "H", "o", "m", "o", "z", "y", "g", "o", "u", "s">>, "red", "bold")>>
                     \o detailedInfo
              ELSE IF z = "Heterozygous"
              THEN <<Plain(match \o <<" ">>),
                     Styled(<<"U+2601", " ", "H", "e", "t", "e", "r", "o", "z", "y", "g", "o", "u", "s">>, "#b8860b", "normal")>>
                     \o detailedInfo
              ELSE IF z = "Wild"
              THEN <<Plain(match \o <<" ">>),
                     Styled(<<"W", "i", "l", "d">>, "black", "")>>
                     \o detailedInfo
              ELSE IF z = "Data Missing"
              THEN <<Styled(match \o <<" ", "[", "D", "a", "t", "a", " ", "M", "i", "s", "s", "i", "n", "g", "]">>, "grey", "")>>
                     \o detailedInfo
              ELSE IF z = "Reference Missing"
              THEN <<Styled(match \o <<" ", "[", "R", "e", "f", "e", "r", "e", "n", "c", "e", " ", "M", "i", "s", "s", "i", "n", "g", "]">>, "grey", "")>>
                     \o detailedInfo
              ELSE <<Plain(match)>>

\* the text content of what replaces one matched identifier
Annotation(match, map, detailed) ==
    PiecesText(AnnotationPieces(match, map, detailed))

\* text.replace(/\b(RS\d+)\b/gi, ...) from position p on: the markup
\* of the span that replaces the text node
RECURSIVE ReplaceRSIdsHTML(_, _, _, _)
ReplaceRSIdsHTML(text, p, map, detailed) ==
    IF p > Len(text) THEN <<>>
    ELSE IF MatchEnd(text, p) # 0
    THEN AnnotationPieces(SubSeq(text, p, MatchEnd(text, p) - 1), map,
                          detailed)
           \o ReplaceRSIdsHTML(text, MatchEnd(text, p), map, detailed)
    ELSE <<Plain(<<text[p]>>)>> \o ReplaceRSIdsHTML(text, p + 1, map, detailed)

\* the text content of that span
ReplaceRSIds(text, p, map, detailed) ==
    PiecesText(ReplaceRSIdsHTML(text, p, map, detailed))

\* li.c1.li-bullet-0, li[class*="li-bullet"]
IsSubsection(el) ==
    el.tag = "li" /\ Includes(el.class, <<"l", "i", "-", "b", "u", "l", "l", "e", "t">>)

\* rsIds.every(...) of lines 693-696
AllNonVariant(ids, map) ==
    \A k \in 1..Len(ids) :
        LET result == MapGet(map, ToUpperCase(ids[k]))
        IN  /\ result # <<>>
            /\ result[1].zygosity \in {"Wild", "Data Missing"}

\* rsIdPattern.test(text) of line 616: the text node holds an identifier
\* and a span takes its place
IsReplaced(text) == \E p \in 1..Len(text) : MatchEnd(text, p) # 0

\* String.prototype.indexOf for one character: the position counted from
\* 1, or 0
IndexOf(s, c) ==
    IF \E p \in 1..Len(s) : s[p] = c
    THEN CHOOSE p \in 1..Len(s) : s[p] = c /\ \A q \in 1..(p - 1) : s[q] # c
    ELSE 0

\* firstLine of lines 720-721
FirstLine(text) ==
    IF IndexOf(text, "\n") # 0
    THEN SubSeq(text, 1, IndexOf(text, "\n") - 1)
    ELSE text

\* The lead-line pass on one element (lines 707-747): the text of the
\* <strong> element it makes, <<>> when it makes none.  el is the element
\* as parsed, texts its text content after substitution.  When the first
\* child is a span that replaced a text node, or a line break, or is
\* missing, innerHTML is empty or starts with '<' and /^([^<\n]+)/
\* matches nothing (lines 738-745).
LeadLine(el, texts) ==
    IF ~IsSubsection(el) \/ extractRSIds(Concat(texts)) = <<>>
    THEN <<>>
    ELSE IF Len(el.texts) >= 1 /\ el.texts[1] # <<>>
            /\ ~IsReplaced(el.texts[1])
    THEN IF Trim(FirstLine(el.texts[1])) # <<>>
         THEN FirstLine(el.texts[1]) ELSE <<>>
    ELSE <<>>

\* the text nodes of the markup of a span: a run of unstyled pieces is one
\* text node, every styled piece holds one
RECURSIVE TextRuns(_, _)
TextRuns(pieces, run) ==
    IF pieces = <<>> THEN (IF run = <<>> THEN <<>> ELSE <<run>>)
    ELSE IF Head(pieces).color = "" /\ Head(pieces).size = ""
    THEN TextRuns(Tail(pieces), run \o Head(pieces).text)
    ELSE (IF run = <<>> THEN <<>> ELSE <<run>>)
           \o <<Head(pieces).text>> \o TextRuns(Tail(pieces), <<>>)

\* the text nodes below an element when the phrase pass walks them: those
\* of the spans of the substitution, the lead line and what is left of its
\* text node, and the text nodes nothing has touched
FinalTextNodes(el, html, lead) ==
    Concat([k \in 1..Len(el.texts) |->
        IF IsReplaced(el.texts[k]) THEN TextRuns(html[k], <<>>)
        ELSE IF k = 1 /\ lead # <<>>
        THEN <<lead>>
               \o (IF Len(lead) < Len(el.texts[1])
                   THEN <<SubSeq(el.texts[1], Len(lead) + 1,
                                 Len(el.texts[1]))>>
                   ELSE <<>>)
        ELSE IF el.texts[k] = <<>> THEN <<>>
        ELSE <<el.texts[k]>>])

\* \s* from position p on: the first position that holds no white space
RECURSIVE SpaceEnd(_, _)
SpaceEnd(s, p) ==
    IF p <= Len(s) /\ s[p] \in WhiteSpace THEN SpaceEnd(s, p + 1) ELSE p

\* the lower-case word w at position p of s, in either letter case
LiteralAt(s, p, w) ==
    /\ p + Len(w) - 1 <= Len(s)
    /\ \A k \in 1..Len(w) : LowerChar(s[p + k - 1]) = w[k]

\* the words, \s+ between them, from position p on: the position after
\* the last word, or 0
RECURSIVE WordsEnd(_, _, _)
WordsEnd(s, p, words) ==
    IF ~LiteralAt(s, p, Head(words)) THEN 0
    ELSE IF Len(words) = 1 THEN p + Len(Head(words))
    ELSE IF SpaceEnd(s, p + Len(Head(words))) = p + Len(Head(words)) THEN 0
    ELSE WordsEnd(s, SpaceEnd(s, p + Len(Head(words))), Tail(words))

\* /\bword\s+word:\s*/i tried at position p: the position after the
\* match, or 0
PhraseEnd(s, p, words) ==
    IF WordBoundary(s, p) /\ WordsEnd(s, p, words) # 0
    THEN SpaceEnd(s, WordsEnd(s, p, words))
    ELSE 0

\* the matches of text.replace(/(...)/gi, ...) from position p on
RECURSIVE PhraseMatches(_, _, _)
PhraseMatches(s, p, words) ==
    IF p > Len(s) THEN <<>>
    ELSE IF PhraseEnd(s, p, words) # 0
    THEN <<SubSeq(s, p, PhraseEnd(s, p, words) - 1)>>
           \o PhraseMatches(s, PhraseEnd(s, p, words), words)
    ELSE PhraseMatches(s, p + 1, words)

Wrapped(tag, matches) ==
    [k \in 1..Len(matches) |-> [tag |-> tag, text |-> matches[k]]]

\* The phrase pass on one text node (lines 755-780): what it wraps, in the
\* order of its four replacements.  A tag an earlier replacement has put
\* into the text ends in '>' and follows a colon or white space, so it
\* neither makes nor removes a word boundary for a later one.
Emphasis(text) ==
    Wrapped("strong", PhraseMatches(text, 1, <<<<"s", "n", "p", "s", ":">>>>))
      \o Wrapped("em", PhraseMatches(text, 1, <<<<"f", "o", "l", "l", "o", "w", "-", "u", "p">>, <<"l", "a", "b", "s", ":">>>>))
      \o Wrapped("em", PhraseMatches(text, 1, <<<<"r", "e", "c", "o", "m", "m", "e", "n", "d", "e", "d">>, <<"l", "a", "b", "s", ":">>>>))
      \o Wrapped("em", PhraseMatches(text, 1, <<<<"r", "e", "c", "o", "m", "m", "e", "n", "d", "e", "d">>, <<"a", "c", "t", "i", "o", "n", "s", ":">>>>))

\* One node after the substitution pass (lines 602-681), the subsection
\* filter (lines 683-704), which reads the text content the substitution
\* has produced, the lead-line pass (lines 707-747) and the phrase pass
\* (lines 749-791).
TransformElement(el, map, detailed, showAll) ==
    LET html  == [k \in 1..Len(el.texts) |->
                    ReplaceRSIdsHTML(el.texts[k], 1, map, detailed)]
        texts == [k \in 1..Len(el.texts) |-> PiecesText(html[k])]
        ids   == extractRSIds(Concat(texts))
        display == IF /\ ~showAll
                      /\ IsSubsection(el)
                      /\ Len(ids) > 0
                      /\ AllNonVariant(ids, map)
                   THEN "none" ELSE ""
        lead  == LeadLine(el, texts)
        nodes == FinalTextNodes(el, html, lead)
    IN  [el EXCEPT
           !.texts = texts,
           !.html = html,
           !.display = display,
           !.strong = lead,
           !.emphasis = Concat([k \in 1..Len(nodes) |-> Emphasis(nodes[k])])]

\* parser.parseFromString(htmlContent, 'text/html'): the nodes of the
\* body.  A node has its tag, class, id and href attributes, its text
\* nodes, their markup once substituted, its display style, the text of
\* its bold lead line, the phrases wrapped in it, the position
\* of the template element it was parsed from (0 for a node the
\* transformer creates) and, for the grand-summary block, its content.
ParseFromString(doc) ==
    [i \in 1..Len(doc) |->
        [tag |-> doc[i].tag, class |-> doc[i].class, id |-> <<>>,
         href |-> <<>>, texts |-> doc[i].texts, html |-> <<>>,
         display |-> "", strong |-> <<>>, emphasis |-> <<>>, origin |-> i,
         summary |-> <<>>]]

\* a <div> created by the transformer
CreatedDiv(id, href, texts, summary) ==
    [tag |-> "div", class |-> <<>>, id |-> id, href |-> href,
     texts |-> texts, html |-> <<>>, display |-> "", strong |-> <<>>,
     emphasis |-> <<>>, origin |-> 0, summary |-> summary]

\* nodes with n inserted before position i
InsertBefore(nodes, i, n) ==
    SubSeq(nodes, 1, i - 1) \o <<n>> \o SubSeq(nodes, i, Len(nodes))

HeadingTags == <<"h1", "h2", "h3", "h4", "h5", "h6">>

IsHeading(el) == \E l \in 1..6 : el.tag = HeadingTags[l]

\* doc.querySelector(tag): the position of the first such element, or 0
QuerySelector(nodes, tag) ==
    IF \E i \in 1..Len(nodes) : nodes[i].tag = tag
    THEN CHOOSE i \in 1..Len(nodes) :
            /\ nodes[i].tag = tag
            /\ \A j \in 1..(i - 1) : nodes[j].tag # tag
    ELSE 0

\* Variant of TitleElement: the first heading in document order, whatever
\* its level.
TitleElement_documentOrder(nodes, l) ==
    IF \E i \in 1..Len(nodes) : IsHeading(nodes[i])
    THEN CHOOSE i \in 1..Len(nodes) :
            /\ IsHeading(nodes[i])
            /\ \A j \in 1..(i - 1) : ~IsHeading(nodes[j])
    ELSE 0

\* the loop of lines 501-505 from level l on: the first h1, or else the
\* first h2, and so on; 0 without any heading
RECURSIVE TitleElement(_, _)
TitleElement(nodes, l) ==
    IF l > 6 THEN 0
    ELSE IF QuerySelector(nodes, HeadingTags[l]) # 0
    THEN QuerySelector(nodes, HeadingTags[l])
    ELSE TitleElement(nodes, l + 1)

\* new Date().toLocaleDateString('en-US', ...) on the given day of a month
ToLocaleDateString(day) ==
    <<"N", "o", "v", "e", "m", "b", "e", "r", " ">> \o <<CHOOSE d \in Digits : d = ToString(day)>>
        \o <<",", " ", "2", "0", "2", "6">>

\* the metadata block (lines 510-525): label and value are the two text
\* nodes of each item
MetadataDiv(filename, date, day) ==
    CreatedDiv(<<>>, <<>>,
        (IF Truthy(filename)
         THEN <<<<"G", "e", "n", "o", "m", "e", " ", "F", "i", "l", "e", ":">>, <<" ">> \o filename>> ELSE <<>>)
        \o (IF Truthy(date)
            THEN <<<<"G", "e", "n", "o", "m", "e", " ", "D", "a", "t", "e", ":">>, <<" ">> \o date>> ELSE <<>>)
        \o <<<<"R", "e", "p", "o", "r", "t", " ", "G", "e", "n", "e", "r", "a", "t", "e", "d", ":">>, <<" ">> \o ToLocaleDateString(day)>>,
        <<>>)

\* Variant of WithMetadata: the report date is also written into the title.
WithMetadata_datedTitle(nodes, filename, date, day) ==
    IF TitleElement(nodes, 1) = 0 THEN nodes
    ELSE InsertBefore(
           [nodes EXCEPT ![TitleElement(nodes, 1)].texts =
               Append(@, ToLocaleDateString(day))],
           TitleElement(nodes, 1) + 1,
           MetadataDiv(filename, date, day))

\* lines 508-529
WithMetadata(nodes, filename, date, day) ==
    IF TitleElement(nodes, 1) = 0 THEN nodes
    ELSE InsertBefore(nodes, TitleElement(nodes, 1) + 1,
                      MetadataDiv(filename, date, day))

\* the first heading, in document order, whose trimmed lower-cased text
\* includes sub; 0 if there is none (the loops of lines 541-547, 555-561)
FirstHeadingWith(nodes, sub) ==
    LET hits == {i \in 1..Len(nodes) :
                    /\ IsHeading(nodes[i])
                    /\ Includes(ToLowerCase(Trim(TextContent(nodes[i]))),
                                sub)}
    IN  IF hits = {} THEN 0 ELSE CHOOSE i \in hits : \A j \in hits : i <= j

GrandSummaryDiv(grandSummary) ==
    CreatedDiv(<<"g", "r", "a", "n", "d", "-", "s", "u", "m", "m", "a", "r", "y">>, <<>>, <<>>, grandSummary)

\* Variant of WithGrandSummary: the contents heading is kept and the block
\* is put in front of it.
WithGrandSummary_keepContents(nodes, grandSummary) ==
    IF grandSummary = <<>> THEN nodes
    ELSE
      LET tocElement ==
              FirstHeadingWith(nodes, <<"t", "a", "b", "l", "e", " ", "o", "f", " ", "c", "o", "n", "t", "e", "n", "t", "s">>)
          introElement == FirstHeadingWith(nodes, <<"i", "n", "t", "r", "o">>)
          titleElement == TitleElement(nodes, 1)
      IN  IF tocElement # 0
          THEN InsertBefore(nodes, tocElement, GrandSummaryDiv(grandSummary))
          ELSE IF introElement # 0
          THEN InsertBefore(nodes, introElement,
                            GrandSummaryDiv(grandSummary))
          ELSE IF titleElement # 0
          THEN InsertBefore(nodes, titleElement + 2,
                            GrandSummaryDiv(grandSummary))
          ELSE nodes

\* Placement of the grand summary (lines 532-578); grandSummary is <<>>
\* when the argument is absent or empty.  The metadata block stands right
\* after the title when this runs.
WithGrandSummary(nodes, grandSummary) ==
    IF grandSummary = <<>> THEN nodes
    ELSE
      LET tocElement ==
              FirstHeadingWith(nodes, <<"t", "a", "b", "l", "e", " ", "o", "f", " ", "c", "o", "n", "t", "e", "n", "t", "s">>)
          introElement == FirstHeadingWith(nodes, <<"i", "n", "t", "r", "o">>)
          titleElement == TitleElement(nodes, 1)
      IN  IF tocElement # 0
          THEN [nodes EXCEPT ![tocElement] = GrandSummaryDiv(grandSummary)]
          ELSE IF introElement # 0
          THEN InsertBefore(nodes, introElement,
                            GrandSummaryDiv(grandSummary))
          ELSE IF titleElement # 0
          THEN InsertBefore(nodes, titleElement + 2,
                            GrandSummaryDiv(grandSummary))
          ELSE nodes

\* getSectionId of transformTemplate (lines 581-583)
getSectionId(sectionName) ==
    <<"s", "e", "c", "t", "i", "o", "n", "-">> \o ReplaceRuns(ToLowerCase(sectionName), 1)

ReturnButton ==
    CreatedDiv(<<>>, <<"#", "g", "r", "a", "n", "d", "-", "s", "u", "m", "m", "a", "r", "y">>,
               <<<<"U+2191", " ", "R", "e", "t", "u", "r", "n", " ", "t", "o", " ", "G", "r", "a", "n", "d", " ", "S", "u", "m", "m", "a", "r", "y">>>>, <<>>)

\* headings.forEach of lines 586-600 from node i on; index counts the h3
\* elements before it
RECURSIVE WithSectionIds(_, _, _)
WithSectionIds(nodes, i, index) ==
    IF i > Len(nodes) THEN <<>>
    ELSE IF nodes[i].tag # "h3"
    THEN <<nodes[i]>> \o WithSectionIds(nodes, i + 1, index)
    ELSE IF /\ Trim(TextContent(nodes[i])) # <<>>
            /\ ~IsIntro(Trim(TextContent(nodes[i])))
    THEN (IF index > 0 THEN <<ReturnButton>> ELSE <<>>)
           \o <<[nodes[i] EXCEPT
                   !.id = getSectionId(Trim(TextContent(nodes[i])))]>>
           \o WithSectionIds(nodes, i + 1, index + 1)
    ELSE <<nodes[i]>> \o WithSectionIds(nodes, i + 1, index + 1)

\* Variant of transformTemplate: without a title the template is returned
\* as it was parsed.
transformTemplate_needsTitle(doc, map, filename, date, grandSummary, detailed, showAll, reportDate) ==
    LET nodes == WithSectionIds(
                   WithGrandSummary(
                     WithMetadata(ParseFromString(doc), filename, date,
                                  reportDate),
                     grandSummary),
                   1, 0)
    IN  IF TitleElement(ParseFromString(doc), 1) = 0
        THEN ParseFromString(doc)
        ELSE [i \in 1..Len(nodes) |->
                TransformElement(nodes[i], map, detailed, showAll)]

\* transformTemplate (lines 479-795); reportDate is the day new Date()
\* gives.
transformTemplate(doc, map, filename, date, grandSummary, detailed, showAll, reportDate) ==
    LET nodes == WithSectionIds(
                   WithGrandSummary(
                     WithMetadata(ParseFromString(doc), filename, date,
                                  reportDate),
                     grandSummary),
                   1, 0)
    IN  [i \in 1..Len(nodes) |->
            TransformElement(nodes[i], map, detailed, showAll)]

----------------------------------------------------------------------------
(* Report generation *)

TagName(tag) ==
    CASE tag = "h1" -> <<"h", "1">>
      [] tag = "h2" -> <<"h", "2">>
      [] tag = "h3" -> <<"h", "3">>
      [] tag = "li" -> <<"l", "i">>
      [] tag = "p"  -> <<"p">>
      [] OTHER      -> <<"d", "i", "v">>

\* the markup of one element of the template text: its tags around its
\* text nodes, which line breaks separate
OuterHTML(el) ==
    <<"<">> \o TagName(el.tag)
      \o (IF el.class = <<>> THEN <<>>
          ELSE <<" ", "c", "l", "a", "s", "s", "=", "\"">> \o el.class \o <<"\"">>)
      \o <<">">>
      \o Join(el.texts, <<"<", "b", "r", ">">>)
      \o <<"<", "/">> \o TagName(el.tag) \o <<">">>

\* templateContent, the text that parseFromString reads the elements from
TemplateContent(doc) == Concat([i \in 1..Len(doc) |-> OuterHTML(doc[i])])

\* extractTemplateTitle (lines 346-359): the trimmed text of the first
\* element of the lowest heading level whose first element has text
RECURSIVE TitleFrom(_, _)
TitleFrom(nodes, level) ==
    IF level > 6 THEN <<"G", "e", "n", "e", "t", "i", "c", " ", "R", "e", "p", "o", "r", "t">>
    ELSE LET heading == QuerySelector(nodes, HeadingTags[level])
         IN  IF heading # 0 /\ TextContent(nodes[heading]) # <<>>
             THEN Trim(TextContent(nodes[heading]))
             ELSE TitleFrom(nodes, level + 1)

extractTemplateTitle(doc) == TitleFrom(doc, 1)

----------------------------------------------------------------------------
(* Genotype file parser *)

\* String.prototype.split with a one-character delimiter
RECURSIVE SplitFrom(_, _, _, _)
SplitFrom(s, delimiter, field, acc) ==
    IF s = <<>> THEN Append(acc, field)
    ELSE IF Head(s) = delimiter
    THEN SplitFrom(Tail(s), delimiter, <<>>, Append(acc, field))
    ELSE SplitFrom(Tail(s), delimiter, Append(field, Head(s)), acc)

Split(s, delimiter) == SplitFrom(s, delimiter, <<>>, <<>>)

\* line.split(format.delimiter).map(p => p.trim())
Parts(line, fmt) ==
    LET raw == Split(line, fmt.delimiter)
    IN  [i \in 1..Len(raw) |-> Trim(raw[i])]

\* parts[column], columns counted from 0; undefined beyond the last part
PartAt(parts, column) ==
    IF column + 1 <= Len(parts) THEN parts[column + 1] ELSE Undefined

\* /^RS\d+$/i
TestRsId(s) ==
    /\ Len(s) >= 3
    /\ UpperChar(s[1]) = "R"
    /\ UpperChar(s[2]) = "S"
    /\ \A i \in 3..Len(s) : s[i] \in Digits

\* "Convert 0 or - to missing data marker" (lines 114-115)
MissingMarker(allele) ==
    IF allele = <<"0">> \/ allele = <<"-">> THEN <<"-">> ELSE allele

\* The body of the loop of parseWithFormat for one line (lines 77-140):
\* <<>> when the line is skipped, else the entry it stores.
ParseLine(rawLine, fmt) ==
    LET line == Trim(rawLine)
        parts == Parts(line, fmt)
    IN  IF line = <<>> \/ Head(line) = "#" THEN <<>>
        ELSE IF Len(parts) <= fmt.rsIdColumn \/ Len(parts) <= fmt.allele1Column
        THEN <<>>
        ELSE IF ~TestRsId(ToUpperCase(PartAt(parts, fmt.rsIdColumn)))
        THEN <<>>
        ELSE IF fmt.allele2Column # <<>>
        THEN
          LET rawAllele1 == PartAt(parts, fmt.allele1Column)
              rawAllele2 == PartAt(parts, fmt.allele2Column[1])
          IN  IF ~Truthy(rawAllele1) \/ ~Truthy(rawAllele2) THEN <<>>
              ELSE <<[rsId |-> ToUpperCase(PartAt(parts, fmt.rsIdColumn)),
                      allele1 |-> MissingMarker(ToUpperCase(rawAllele1)),
                      allele2 |-> MissingMarker(ToUpperCase(rawAllele2))]>>
        ELSE
          LET rawGenotype == PartAt(parts, fmt.allele1Column)
              genotype == ToUpperCase(rawGenotype)
          IN  IF ~Truthy(rawGenotype) THEN <<>>
              ELSE IF Len(genotype) = 2
              THEN <<[rsId |-> ToUpperCase(PartAt(parts, fmt.rsIdColumn)),
                      allele1 |-> <<genotype[1]>>,
                      allele2 |-> <<genotype[2]>>]>>
              ELSE IF Len(genotype) = 1
              THEN <<[rsId |-> ToUpperCase(PartAt(parts, fmt.rsIdColumn)),
                      allele1 |-> genotype,
                      allele2 |-> genotype]>>
              ELSE IF genotype = <<"-", "-">> \/ genotype = <<"0", "0">>
                      \/ genotype = <<>>
              THEN <<[rsId |-> ToUpperCase(PartAt(parts, fmt.rsIdColumn)),
                      allele1 |-> <<"-">>,
                      allele2 |-> <<"-">>]>>
              ELSE <<>>

\* geneticData[rsId] = { allele1, allele2 }
GeneticDataSet(gd, entry) ==
    [k \in DOMAIN gd \cup {entry.rsId} |->
        IF k = entry.rsId
        THEN [allele1 |-> entry.allele1, allele2 |-> entry.allele2]
        ELSE gd[k]]

\* for (let i = format.skipLines; i < lines.length; i++), lines counted
\* from 0 in the code and from 1 here
RECURSIVE ParseLines(_, _, _, _)
ParseLines(lines, fmt, i, gd) ==
    IF i > Len(lines) THEN gd
    ELSE LET entry == ParseLine(lines[i], fmt)
         IN  ParseLines(lines, fmt, i + 1,
                        IF entry = <<>> THEN gd
                        ELSE GeneticDataSet(gd, entry[1]))

\* lines is content.split('\n')
parseWithFormat(lines, fmt) == ParseLines(lines, fmt, fmt.skipLines + 1, <<>>)

----------------------------------------------------------------------------
(* Format detection and the parse of a selected file *)

StartsWith(s, prefix) ==
    Len(s) >= Len(prefix) /\ SubSeq(s, 1, Len(prefix)) = prefix

\* Array.prototype.slice(0, n)
Slice(lines, n) == SubSeq(lines, 1, IF Len(lines) < n THEN Len(lines) ELSE n)

\* the text of a header comment without its '#', lower-cased
HeaderCheck(line) == ToLowerCase(Trim(Tail(line)))

\* "a comment line that contains column headers" (lines 19-26); line is
\* already trimmed
IsCommentHeader(line) ==
    /\ StartsWith(line, <<"#">>)
    /\ Includes(line, <<"r", "s", "i", "d">>) \/ Includes(line, <<"c", "h", "r", "o", "m", "o", "s", "o", "m", "e">>)
    /\ \/ StartsWith(HeaderCheck(line), <<"r", "s", "i", "d">>)
       \/ Includes(HeaderCheck(line), <<"\t", "r", "s", "i", "d">>)
       \/ Includes(HeaderCheck(line), <<",", "r", "s", "i", "d">>)

\* "first non-comment line" (lines 29-32)
IsPlainHeader(line) == ~StartsWith(line, <<"#">>) /\ Len(line) > 0

\* The loop of lines 15-33: the first line that is a header, lines counted
\* from 1 here and from 0 in the code; 0 stands for headerLineIndex -1
RECURSIVE HeaderLineFrom(_, _)
HeaderLineFrom(lines, i) ==
    IF i > Len(lines) THEN 0
    ELSE IF IsCommentHeader(Trim(lines[i])) \/ IsPlainHeader(Trim(lines[i]))
    THEN i
    ELSE HeaderLineFrom(lines, i + 1)

\* Array.prototype.findIndex: columns counted from 0, -1 when none
FindIndex(parts, names) ==
    IF \E k \in 1..Len(parts) : parts[k] \in names
    THEN (CHOOSE k \in 1..Len(parts) :
             /\ parts[k] \in names
             /\ \A j \in 1..(k - 1) : parts[j] \notin names) - 1
    ELSE -1

\* /^rs\d+$/i or /^i\d+$/i (line 106)
TestRsOrInternalId(v) ==
    \/ TestRsId(v)
    \/ /\ Len(v) >= 2
       /\ UpperChar(v[1]) = "I"
       /\ \A i \in 2..Len(v) : v[i] \in Digits

\* detectFileFormat of the sliced lines: <<>> for null, else <<format>>
DetectFormat(lines) ==
    LET h == HeaderLineFrom(lines, 1)
        trimmed == Trim(lines[h])
        headerLine == IF IsCommentHeader(trimmed) THEN Trim(Tail(trimmed))
                      ELSE trimmed
        delimiter == IF Includes(headerLine, <<",">>)
                        /\ ~Includes(headerLine, <<"\t">>)
                     THEN "," ELSE "\t"
        raw == Split(headerLine, delimiter)
        headerParts == [k \in 1..Len(raw) |-> ToLowerCase(Trim(raw[k]))]
        rsIdColumnIndex ==
            FindIndex(headerParts, {<<"r", "s", "i", "d">>, <<"r", "s", " ", "i", "d">>, <<"s", "n", "p">>})
        genotypeIndex == FindIndex(headerParts, {<<"g", "e", "n", "o", "t", "y", "p", "e">>, <<"a", "l", "l", "e", "l", "e", "s">>})
        allele1Index == FindIndex(headerParts, {<<"a", "l", "l", "e", "l", "e", "1">>, <<"a", "l", "l", "e", "l", "e", " ", "1">>})
        allele2Index == FindIndex(headerParts, {<<"a", "l", "l", "e", "l", "e", "2">>, <<"a", "l", "l", "e", "l", "e", " ", "2">>})
        dataLine == IF h + 1 <= Len(lines) THEN Trim(lines[h + 1]) ELSE <<>>
        dataParts == Split(dataLine, delimiter)
        rsIdValue == IF rsIdColumnIndex + 1 <= Len(dataParts)
                     THEN Trim(dataParts[rsIdColumnIndex + 1]) ELSE <<>>
        genotypeCol == IF Len(dataParts) > 3 THEN 3 ELSE Len(dataParts) - 1
    IN  IF h = 0 THEN <<>>
        ELSE IF rsIdColumnIndex = -1 THEN <<>>
        ELSE IF genotypeIndex # -1
        THEN <<[rsIdColumn |-> rsIdColumnIndex,
                allele1Column |-> genotypeIndex, allele2Column |-> <<>>,
                delimiter |-> delimiter, skipLines |-> h]>>
        ELSE IF allele1Index # -1 /\ allele2Index # -1
        THEN <<[rsIdColumn |-> rsIdColumnIndex,
                allele1Column |-> allele1Index,
                allele2Column |-> <<allele2Index>>,
                delimiter |-> delimiter, skipLines |-> h]>>
        ELSE IF /\ dataLine # <<>>
                /\ ~StartsWith(dataLine, <<"#">>)
                /\ rsIdValue # <<>>
                /\ TestRsOrInternalId(rsIdValue)
        THEN <<[rsIdColumn |-> rsIdColumnIndex,
                allele1Column |-> genotypeCol, allele2Column |-> <<>>,
                delimiter |-> delimiter, skipLines |-> h]>>
        ELSE <<>>

\* const lines = fileContent.split('\n').slice(0, 30)
detectFileFormat(lines) == DetectFormat(Slice(lines, 30))

RECURSIVE WordEnd(_, _)
WordEnd(s, p) ==
    IF p <= Len(s) /\ IsWordChar(s[p]) THEN WordEnd(s, p + 1) ELSE p

\* \s+, \w+ and \d+ at position p: the position after the run, or 0; a
\* failed earlier step (p = 0) stays failed
SpaceRun(s, p) == IF p = 0 \/ SpaceEnd(s, p) = p THEN 0 ELSE SpaceEnd(s, p)
WordRun(s, p)  == IF p = 0 \/ WordEnd(s, p) = p THEN 0 ELSE WordEnd(s, p)
DigitRun(s, p) == IF p = 0 \/ DigitsEnd(s, p) = p THEN 0 ELSE DigitsEnd(s, p)

\* the character c at position p: the position after it, or 0
Char(s, p, c) == IF p # 0 /\ p <= Len(s) /\ s[p] = c THEN p + 1 ELSE 0

\* \d{n} at position p: the position after it, or 0
DigitsN(s, p, n) ==
    IF p # 0 /\ p + n - 1 <= Len(s) /\ \A k \in p..(p + n - 1) : s[k] \in Digits
    THEN p + n ELSE 0

\* \d{1,2} followed by '/': the position after the '/', or 0
OneOrTwoSlash(s, p) ==
    IF DigitsN(s, p, 2) # 0 THEN Char(s, p + 2, "/")
    ELSE IF DigitsN(s, p, 1) # 0 THEN Char(s, p + 1, "/")
    ELSE 0

\* /at:\s+\w+\s+(\w+\s+\d+\s+\d+:\d+:\d+\s+\d{4})/i tried at p: the
\* captured group as <<first, beyond>>, or <<>>.  Neighbouring classes are
\* disjoint, so every greedy run is the whole run.
Pattern1At(s, p) ==
    LET at == IF LiteralAt(s, p, <<"a", "t", ":">>) THEN p + 3 ELSE 0
        first == SpaceRun(s, WordRun(s, SpaceRun(s, at)))
        month == SpaceRun(s, WordRun(s, first))
        day == SpaceRun(s, DigitRun(s, month))
        hours == Char(s, DigitRun(s, day), ":")
        minutes == Char(s, DigitRun(s, hours), ":")
        seconds == SpaceRun(s, DigitRun(s, minutes))
        beyond == DigitsN(s, seconds, 4)
    IN  IF beyond = 0 THEN <<>> ELSE <<first, beyond>>

\* /(\d{4}-\d{2}-\d{2})/ tried at p
Pattern2At(s, p) ==
    LET beyond ==
          DigitsN(s, Char(s, DigitsN(s, Char(s, DigitsN(s, p, 4), "-"), 2), "-"), 2)
    IN  IF beyond = 0 THEN <<>> ELSE <<p, beyond>>

\* /(\d{1,2}\/\d{1,2}\/\d{4})/ tried at p
Pattern3At(s, p) ==
    LET month == OneOrTwoSlash(s, p)
        day == IF month = 0 THEN 0 ELSE OneOrTwoSlash(s, month)
        beyond == DigitsN(s, day, 4)
    IN  IF beyond = 0 THEN <<>> ELSE <<p, beyond>>

\* String.prototype.match of one pattern: the group of the leftmost match
\* as <<text>>, or <<>>; at[p] is the outcome of the pattern tried at p
FirstMatch(s, at) ==
    IF \E p \in 1..Len(s) : at[p] # <<>>
    THEN LET p == CHOOSE q \in 1..Len(s) :
                      at[q] # <<>> /\ \A r \in 1..(q - 1) : at[r] = <<>>
         IN  <<SubSeq(s, at[p][1], at[p][2] - 1)>>
    ELSE <<>>

\* extractDateFromFirstLine of content.split('\n')
extractDateFromFirstLine(lines) ==
    LET firstLine == lines[1]
        match1 == FirstMatch(firstLine, [p \in 1..Len(firstLine) |-> Pattern1At(firstLine, p)])
        match2 == FirstMatch(firstLine, [p \in 1..Len(firstLine) |-> Pattern2At(firstLine, p)])
        match3 == FirstMatch(firstLine, [p \in 1..Len(firstLine) |-> Pattern3At(firstLine, p)])
    IN  IF match1 # <<>> THEN match1[1]
        ELSE IF match2 # <<>> THEN match2[1]
        ELSE IF match3 # <<>> THEN match3[1]
        ELSE Undefined

\* What parseGeneticDataFile settles with (lines 38-70): readable is FALSE
\* when the FileReader reports an error.  The preview is the first 30
\* lines; rejected promises carry the message of the Error.
parseGeneticDataFile(lines, readable) ==
    IF ~readable
    THEN [rejected |-> TRUE, message |-> "Failed to read file",
          data |-> <<>>, date |-> Undefined]
    ELSE IF detectFileFormat(Slice(lines, 30)) = <<>>
    THEN [rejected |-> TRUE, message |-> "Unable to determine file format",
          data |-> <<>>, date |-> Undefined]
    ELSE [rejected |-> FALSE, message |-> "",
          data |-> parseWithFormat(lines, detectFileFormat(Slice(lines, 30))[1]),
          date |-> extractDateFromFirstLine(lines)]

\* parseGeneticDataString (lines 153-168): the preview is the first 50
\* lines; threw is TRUE when the function throws
parseGeneticDataString(lines) ==
    IF detectFileFormat(Slice(lines, 50)) = <<>>
    THEN [threw |-> TRUE, data |-> <<>>, date |-> Undefined]
    ELSE [threw |-> FALSE,
          data |-> parseWithFormat(lines, detectFileFormat(Slice(lines, 50))[1]),
          date |-> extractDateFromFirstLine(lines)]

----------------------------------------------------------------------------
(* Input spaces *)

MaxRef == 2     \* longest reference table explored
MaxIds == 3     \* longest identifier list passed to getSNPResults
MaxFragments == 4   \* most fragments concatenated into a text
MaxNodes == 1   \* most elements of a template
MaxTexts == 2   \* most text nodes below one element

RECURSIVE SeqsUpTo(_, _)
SeqsUpTo(S, n) ==
    IF n = 0 THEN {<<>>}
    ELSE LET shorter == SeqsUpTo(S, n - 1)
         IN  shorter \cup {Append(s, x) : s \in shorter, x \in S}

AlleleArgs == {Undefined, <<>>, <<"-">>, <<"A">>, <<"a">>, <<"G">>, <<"g">>}
RsIdArgs   == {<<"R","S","1">>, <<"r","s","3">>}

EffectAlleles == {Undefined, <<>>, <<" ">>, <<"G">>, <<"g">>, <<"G"," ">>}

ZygReferenceEntries ==
    [rsId : {<<"r","s","1">>},
     problemAllele : EffectAlleles,
     gene : {Undefined}]
    \cup
    {[rsId |-> <<"R","S","2">>, problemAllele |-> <<"G">>,
      gene |-> Undefined]}

\* getSNPResults: identifiers in both cases, genotype keys in the upper
\* case the parser stores (geneticDataParser.ts line 90).
RsIdList     == {<<"R","S","1">>, <<"r","s","1">>, <<"r","s","2">>}
GenotypeKeys == {<<"R","S","1">>, <<"R","S","2">>}
Genotypes ==
    {[allele1 |-> <<"A">>, allele2 |-> <<"A">>],
     [allele1 |-> <<"a">>, allele2 |-> <<"G">>],
     [allele1 |-> <<"g">>, allele2 |-> <<"g">>],
     [allele1 |-> <<"-">>, allele2 |-> <<"-">>],
     [allele1 |-> <<>>,    allele2 |-> <<"G">>]}
GeneticDatas ==
    UNION {[ks -> Genotypes] : ks \in SUBSET GenotypeKeys}
SnpReferenceEntries ==
    {[rsId |-> <<"r","s","1">>, problemAllele |-> <<"G">>,
      gene |-> <<"G","1">>],
     [rsId |-> <<"r","s","1">>, problemAllele |-> Undefined,
      gene |-> Undefined],
     [rsId |-> <<"R","S","2">>, problemAllele |-> <<>>,
      gene |-> <<"G","1">>]}

\* extractRSIds: texts are concatenations of these fragments, so that an
\* identifier can stand alone, repeat in another letter case, or touch other
\* word characters.
Fragments ==
    {<<"R","S","1">>, <<",","r","s","1">>, <<"r","S","2">>, <<"R","S">>,
     <<"1">>, <<"x">>, <<"_">>, <<" ">>}

Texts == {Concat(fs) : fs \in SeqsUpTo(Fragments, MaxFragments)}

\* transformTemplate: list items with and without the li-bullet class and
\* a paragraph, over text nodes that start or end with an identifier.
TextNodes == {<<"r","s","1">>, <<"R","S","2">>, <<" ","x">>}
Elements ==
    [tag : {"li"},
     class : {<<"c", "1", " ", "l", "i", "-", "b", "u", "l", "l", "e", "t", "-", "0">>, <<"c","1">>},
     texts : SeqsUpTo(TextNodes, MaxTexts)]
    \cup
    [tag : {"p"},
     class : {<<"c", "1", " ", "l", "i", "-", "b", "u", "l", "l", "e", "t", "-", "0">>},
     texts : SeqsUpTo(TextNodes, MaxTexts)]
\* the elements that follow the first one of a template
LaterElements ==
    {[tag |-> "li",
      class |-> <<"c", "1", " ", "l", "i", "-", "b", "u", "l", "l", "e", "t", "-", "0">>,
      texts |-> << <<"R","S","2">> >>],
     [tag |-> "p", class |-> <<"c","1">>, texts |-> << <<" ","x">> >>]}
Templates ==
    {<<>>} \cup {<<e>> \o rest : e \in Elements,
                                 rest \in SeqsUpTo(LaterElements, MaxNodes - 1)}

\* one SNPResult for each zygosity state
SNPResultValues ==
    {[zygosity |-> "Homozygous", alleles |-> <<"G","G">>,
      effectAllele |-> <<"G">>, gene |-> <<"G","1">>],
     [zygosity |-> "Heterozygous", alleles |-> <<"A","G">>,
      effectAllele |-> <<"G">>, gene |-> Undefined],
     [zygosity |-> "Wild", alleles |-> <<"A","A">>,
      effectAllele |-> <<"G">>, gene |-> <<"G","1">>],
     [zygosity |-> "Data Missing", alleles |-> <<"-","-">>,
      effectAllele |-> <<"G">>, gene |-> Undefined],
     [zygosity |-> "Reference Missing", alleles |-> <<"A","A">>,
      effectAllele |-> <<" ">>, gene |-> <<"G","1">>]}

ResultKeys == << <<"R","S","1">>, <<"R","S","2">> >>

\* the maps that hold, for each key, no result or one of the values
SNPResultMaps ==
    {SelectSeq([i \in 1..Len(ResultKeys) |->
                  [key |-> ResultKeys[i],
                   value |-> IF f[i] = <<>> THEN <<>>
                             ELSE [rsId |-> ResultKeys[i],
                                   zygosity |-> f[i][1].zygosity,
                                   alleles |-> f[i][1].alleles,
                                   effectAllele |-> f[i][1].effectAllele,
                                   gene |-> f[i][1].gene]]],
               LAMBDA e : e.value # <<>>) :
        f \in [1..Len(ResultKeys) ->
                 {<<>>} \cup {<<v>> : v \in SNPResultValues}]}

\* Report pipeline: templates are sequences of sections, a section being
\* an h3 heading (or none, for content that follows the previous section)
\* and the paragraphs below it.
MaxSections == 3    \* most sections of a template

H3(texts) == [tag |-> "h3", class |-> <<>>, texts |-> texts]
Paragraph(texts) == [tag |-> "p", class |-> <<"c", "2">>, texts |-> texts]

Sections ==
    {<<H3(<<<<"A">>>>), Paragraph(<<<<"r", "s", "1", " ", "r", "s", "2">>>>),
       Paragraph(<<<<"r", "s", "3", " ", "R", "S", "4">>>>)>>,
     <<H3(<<<<"A">>>>), Paragraph(<<<<"R", "S", "1", ",", "r", "s", "1">>>>)>>,
     <<H3(<<<<"A">>>>), Paragraph(<<<<"r", "s", "3", " ", "R", "S", "4">>>>)>>,
     <<H3(<<<<" ", "B", " ", " ", "&", "b", " ">>>>), Paragraph(<<<<"x">>>>)>>,
     <<H3(<<<<"B">>, <<" ", " ", "&", "b">>>>), Paragraph(<<<<"r", "s", "1", " ", "r", "s", "2">>>>)>>,
     <<H3(<<<<"A", "n", " ", "I", "N", "T", "R", "O">>>>), Paragraph(<<<<"r", "s", "1", " ", "r", "s", "2">>>>)>>,
     <<H3(<<>>), Paragraph(<<<<"R", "S", "1", ",", "r", "s", "1">>>>)>>,
     <<Paragraph(<<<<"r", "s", "1", " ", "r", "s", "2">>>>)>>}

\* the sections that follow the first one of a template
LaterSections ==
    {<<H3(<<<<"A">>>>), Paragraph(<<<<"r", "s", "1", " ", "r", "s", "2">>>>),
       Paragraph(<<<<"r", "s", "3", " ", "R", "S", "4">>>>)>>,
     <<H3(<<<<"A">>>>), Paragraph(<<<<"R", "S", "1", ",", "r", "s", "1">>>>)>>,
     <<H3(<<<<" ", "B", " ", " ", "&", "b", " ">>>>), Paragraph(<<<<"x">>>>)>>,
     <<H3(<<<<"B">>, <<" ", " ", "&", "b">>>>), Paragraph(<<<<"r", "s", "1", " ", "r", "s", "2">>>>)>>}

SectionTemplates ==
    {<<>>} \cup {first \o Concat(rest) :
                   first \in Sections,
                   rest \in SeqsUpTo(LaterSections, MaxSections - 1)}

SummaryKeys == << <<"R", "S", "1">>, <<"R", "S", "2">>, <<"R", "S", "3">>, <<"R", "S", "4">> >>

\* the result of identifier number k in state z
ResultIn(k, z) ==
    LET v == CHOOSE x \in SNPResultValues : x.zygosity = z
    IN  [key |-> SummaryKeys[k],
         value |-> [rsId |-> SummaryKeys[k], zygosity |-> v.zygosity,
                    alleles |-> v.alleles, effectAllele |-> v.effectAllele,
                    gene |-> v.gene]]

\* one identifier in each of four states; three identifiers of which two
\* are Homozygous and the fourth has no result; another assignment
SummaryMaps ==
    {<<ResultIn(1, "Homozygous"), ResultIn(2, "Heterozygous"),
       ResultIn(3, "Wild"), ResultIn(4, "Data Missing")>>,
     <<ResultIn(1, "Homozygous"), ResultIn(2, "Homozygous"),
       ResultIn(3, "Reference Missing")>>,
     <<ResultIn(1, "Wild"), ResultIn(2, "Data Missing"),
       ResultIn(3, "Heterozygous"), ResultIn(4, "Homozygous")>>}

\* Placement: templates of headings of several levels, with and without
\* a contents heading, an introduction and a title, and a paragraph.
MaxHeadings == 4    \* most elements of a template of headings

Heading(tag, text) == [tag |-> tag, class |-> <<>>, texts |-> <<text>>]

HeadingElements ==
    {Heading("h1", <<"T">>),
     Heading("h2", <<" ", "T", "A", "B", "L", "E", " ", "o", "f", " ", "C", "O", "N", "T", "E", "N", "T", "S", " ", "(", "a", "u", "t", "o", ")">>),
     Heading("h3", <<"T", "a", "b", "l", "e", " ", "o", "f", " ", "c", "o", "n", "t", "e", "n", "t", "s">>),
     Heading("h2", <<"I", "n", "t", "r", "o", "d", "u", "c", "t", "i", "o", "n">>),
     Heading("h3", <<"A", "n", " ", "I", "N", "T", "R", "O">>),
     Heading("h3", <<"A">>),
     Paragraph(<<<<"x">>>>)}

HeadingTemplates == SeqsUpTo(HeadingElements, MaxHeadings)

\* Report generation: the report is generated more than once from the same
\* inputs while the clock moves on.
MaxRuns == 2    \* most invocations of handleGenerateReport
MaxDay == 2     \* last day the clock reaches

ListItem(texts) ==
    [tag |-> "li", class |-> <<"c", "1", " ", "l", "i", "-", "b", "u", "l", "l", "e", "t", "-", "0">>, texts |-> texts]

ReportTemplates ==
    {<<Paragraph(<<<<"r", "s", "1">>>>)>>,
     <<ListItem(<<<<"r", "s", "1">>, <<"R", "S", "2">>>>)>>,
     <<H3(<<<<"A">>>>), Paragraph(<<<<"r", "s", "1", " ", "R", "S", "2">>>>)>>,
     <<Heading("h1", <<"T">>), H3(<<<<"A">>>>), ListItem(<<<<"r", "s", "1">>>>),
       H3(<<<<"B">>>>), Paragraph(<<<<"R", "S", "2">>>>)>>,
     <<H3(<<<<"A">>>>), Paragraph(<<<<"r", "s">>, <<"1", " ", "r", "s", "2">>>>)>>,
     <<H3(<<<<"A">>>>), Paragraph(<<<<"r", "s", "1">>>>),
       H3(<<<<"A">>>>), Paragraph(<<<<"R", "S", "2">>>>)>>}

ReportReferences ==
    {<<>>,
     <<[rsId |-> <<"r","s","1">>, problemAllele |-> <<"G">>,
        gene |-> <<"G","1">>],
       [rsId |-> <<"R","S","2">>, problemAllele |-> <<>>,
        gene |-> <<"G","1">>]>>}

\* parseWithFormat: a header line and data lines of a file with a combined
\* genotype column or with two allele columns.
MaxLines == 2   \* most lines after the header

Tab == <<"\t">>

Line(fields) == Join(fields, Tab)

HeaderLine == Line(<<<<"r", "s", "i", "d">>, <<"c", "h", "r", "o", "m", "o", "s", "o", "m", "e">>, <<"p", "o", "s", "i", "t", "i", "o", "n">>, <<"g", "e", "n", "o", "t", "y", "p", "e">>>>)

DataLines ==
    {Line(<<<<"r", "s", "1">>, <<"1">>, <<"5">>, g>>) :
        g \in {<<"A", "G">>, <<"g", "g">>, <<"-", "-">>, <<"0", "0">>, <<"-">>, <<"0">>, <<"A", "G", "T">>}}
    \cup {Line(<<<<"R", "S", "2">>, <<"1">>, <<"5">>, g>>) : g \in {<<"0", "0">>, <<"G">>}}
    \cup {Line(<<<<"r", "s", "1">>, <<"1">>, <<"5">>, a, b>>) :
             a \in {<<"0">>, <<"-">>, <<"a">>}, b \in {<<"0">>, <<"G">>}}
    \cup {Line(<<<<"R", "S", "2">>, <<"1">>, <<"5">>, <<"-">>, <<"-">>>>),
          Line(<<<<"x", "1">>, <<"1">>, <<"5">>, <<"A", "G">>>>),
          <<"#", " ", "c">>, <<"r", "s", "1">>, <<>>}

\* FileFormatInfo of a 23andMe file and of an AncestryDNA file
CombinedFormat ==
    [rsIdColumn |-> 0, allele1Column |-> 3, allele2Column |-> <<>>,
     delimiter |-> "\t", skipLines |-> 1]
SeparateFormat ==
    [rsIdColumn |-> 0, allele1Column |-> 3, allele2Column |-> <<4>>,
     delimiter |-> "\t", skipLines |-> 1]

\* Structural anchors: templates of list items, a paragraph and headings
\* that are neither a contents heading nor an introduction, with
\* identifiers, a lead line and fixed phrases.
MaxItems == 3   \* most elements of such a template

AnchorElements ==
    {ListItem(<<<<"r", "s", "1">>>>),
     ListItem(<<<<"T", "\n", "u">>, <<"S", "N", "P", "s", ":", " ", "R", "S", "2">>>>),
     Paragraph(<<<<"F", "o", "l", "l", "o", "w", "-", "u", "p", " ", " ", "l", "a", "b", "s", ":", "x">>>>),
     Heading("h2", <<"T">>),
     H3(<<<<"A">>>>)}

AnchorTemplates == SeqsUpTo(AnchorElements, MaxItems)

AnchorMaps ==
    {<<ResultIn(1, "Wild"), ResultIn(2, "Homozygous")>>,
     <<ResultIn(1, "Wild"), ResultIn(2, "Data Missing")>>,
     <<ResultIn(1, "Heterozygous")>>}

\* The metadata block: templates of headings of three levels, among them
\* a contents heading and an introduction, and a paragraph.
MaxElements == 3    \* most elements of such a template

TitleElements ==
    {Heading("h1", <<"T">>),
     Heading("h2", <<"T", "a", "b", "l", "e", " ", "o", "f", " ", "c", "o", "n", "t", "e", "n", "t", "s">>),
     Heading("h2", <<"I", "n", "t", "r", "o", "d", "u", "c", "t", "i", "o", "n">>),
     Heading("h3", <<"A">>),
     Paragraph(<<<<"x">>>>)}

TitleTemplates == SeqsUpTo(TitleElements, MaxElements)

\* The App: genotype files that are selected, by file name.  File a is a
\* combined-format file with a dated comment line, b has an unnamed result
\* column and another genotype, c has no identifier column, d holds a
\* header and no data line.
MaxSelections == 2  \* most selections of a genotype file

GenomeFiles ==
    {[name |-> <<"a">>,
      lines |-> <<<<"#", " ", "2", "0", "2", "0", "-", "0", "1", "-", "0", "2">>, <<"r", "s", "i", "d", "\t", "g", "e", "n", "o", "t", "y", "p", "e">>, <<"r", "s", "1", "\t", "A", "G">>>>],
     [name |-> <<"b">>,
      lines |-> <<<<"r", "s", "i", "d", "\t", "c", "h", "r", "o", "m", "o", "s", "o", "m", "e", "\t", "p", "o", "s", "i", "t", "i", "o", "n", "\t", "r", "e", "s", "u", "l", "t">>, <<"r", "s", "1", "\t", "1", "\t", "5", "\t", "G", "G">>>>],
     [name |-> <<"c">>,
      lines |-> <<<<"#", " ", "1", "/", "2", "/", "2", "0", "2", "0">>, <<"h", "e", "l", "l", "o">>>>],
     [name |-> <<"d">>,
      lines |-> <<<<"r", "s", "i", "d", ",", "g", "e", "n", "o", "t", "y", "p", "e">>>>]}

AppTemplates ==
    {<<ListItem(<<<<"r", "s", "1">>>>)>>,
     <<H3(<<<<"A">>>>), Paragraph(<<<<"R", "S", "1">>>>)>>}

AppReference ==
    <<[rsId |-> <<"r", "s", "1">>, problemAllele |-> <<"G">>, gene |-> <<"G", "1">>]>>

----------------------------------------------------------------------------
(* One call of an exported function on every argument combination *)

\* transformTemplate called without its optional arguments, on day 1
IdleReport ==
    /\ genomeFilename = Undefined
    /\ genomeDate = Undefined
    /\ grandSummaryHTML = <<>>
    /\ sectionSummaries = <<>>
    /\ now = 1
    /\ previous = <<>>

\* no genotype file is being parsed
IdleParser ==
    /\ fileLines = <<>>
    /\ format = <<>>

\* the App component is not mounted
IdleApp ==
    /\ app = <<>>
    /\ parses = <<>>

InitZygosity ==
    /\ IdleReport
    /\ IdleParser
    /\ IdleApp
    /\ call = "determineZygosity"
    /\ pc = "entry"
    /\ allele1 \in AlleleArgs
    /\ allele2 \in AlleleArgs
    /\ rsId \in RsIdArgs
    /\ alleleReference \in SeqsUpTo(ZygReferenceEntries, MaxRef)
    /\ zygosity = Pending
    /\ rsIds = <<>>
    /\ geneticData = <<>>
    /\ results = <<>>
    /\ content = <<>>
    /\ extracted = <<>>
    /\ htmlContent = <<>>
    /\ snpResults = <<>>
    /\ showDetailedAnnotations = FALSE
    /\ showAllSubsections = FALSE
    /\ transformed = <<>>

InitSNPResults ==
    /\ IdleReport
    /\ IdleParser
    /\ IdleApp
    /\ call = "getSNPResults"
    /\ pc = "entry"
    /\ rsIds \in SeqsUpTo(RsIdList, MaxIds)
    /\ geneticData \in GeneticDatas
    /\ alleleReference \in SeqsUpTo(SnpReferenceEntries, MaxRef)
    /\ allele1 = Undefined
    /\ allele2 = Undefined
    /\ rsId = Undefined
    /\ zygosity = Pending
    /\ results = <<>>
    /\ content = <<>>
    /\ extracted = <<>>
    /\ htmlContent = <<>>
    /\ snpResults = <<>>
    /\ showDetailedAnnotations = FALSE
    /\ showAllSubsections = FALSE
    /\ transformed = <<>>

Init == InitZygosity \/ InitSNPResults

DetermineZygosity ==
    /\ call = "determineZygosity" /\ pc = "entry"
    /\ LET z == determineZygosity(allele1, allele2, rsId, alleleReference)
       IN  IF z = "TypeError"
           THEN pc' = "throw" /\ zygosity' = zygosity
           ELSE pc' = "return" /\ zygosity' = z
    /\ UNCHANGED <<call, allele1, allele2, rsId, alleleReference,
                   rsIds, geneticData, results, content, extracted,
                   htmlContent, snpResults, showDetailedAnnotations,
                   showAllSubsections, transformed>>
    /\ UNCHANGED <<reportVars, parserVars, appVars>>

GetSNPResults ==
    /\ call = "getSNPResults" /\ pc = "entry"
    /\ LET out == getSNPResults(rsIds, geneticData, alleleReference)
       IN  IF out.threw
           THEN pc' = "throw" /\ results' = results
           ELSE pc' = "return" /\ results' = out.map
    /\ UNCHANGED <<call, allele1, allele2, rsId, alleleReference, zygosity,
                   rsIds, geneticData, content, extracted,
                   htmlContent, snpResults, showDetailedAnnotations,
                   showAllSubsections, transformed>>
    /\ UNCHANGED <<reportVars, parserVars, appVars>>

Next == DetermineZygosity \/ GetSNPResults

Spec == Init /\ [][Next]_vars

\* extractRSIds on every text
InitExtract ==
    /\ IdleReport
    /\ IdleParser
    /\ IdleApp
    /\ call = "extractRSIds"
    /\ pc = "entry"
    /\ content \in Texts
    /\ extracted = <<>>
    /\ allele1 = Undefined
    /\ allele2 = Undefined
    /\ rsId = Undefined
    /\ alleleReference = <<>>
    /\ zygosity = Pending
    /\ rsIds = <<>>
    /\ geneticData = <<>>
    /\ results = <<>>
    /\ htmlContent = <<>>
    /\ snpResults = <<>>
    /\ showDetailedAnnotations = FALSE
    /\ showAllSubsections = FALSE
    /\ transformed = <<>>

ExtractRSIds ==
    /\ call = "extractRSIds" /\ pc = "entry"
    /\ extracted' = extractRSIds(content)
    /\ pc' = "return"
    /\ UNCHANGED <<call, allele1, allele2, rsId, alleleReference, zygosity,
                   rsIds, geneticData, results, content,
                   htmlContent, snpResults, showDetailedAnnotations,
                   showAllSubsections, transformed>>
    /\ UNCHANGED <<reportVars, parserVars, appVars>>

NextExtract == ExtractRSIds

SpecExtract == InitExtract /\ [][NextExtract]_vars

\* transformTemplate on every template, result map and flag combination
InitTransform ==
    /\ IdleReport
    /\ IdleParser
    /\ IdleApp
    /\ call = "transformTemplate"
    /\ pc = "entry"
    /\ htmlContent \in Templates
    /\ snpResults \in SNPResultMaps
    /\ showDetailedAnnotations \in BOOLEAN
    /\ showAllSubsections \in BOOLEAN
    /\ transformed = <<>>
    /\ allele1 = Undefined
    /\ allele2 = Undefined
    /\ rsId = Undefined
    /\ alleleReference = <<>>
    /\ zygosity = Pending
    /\ rsIds = <<>>
    /\ geneticData = <<>>
    /\ results = <<>>
    /\ content = <<>>
    /\ extracted = <<>>

TransformTemplate ==
    /\ call = "transformTemplate" /\ pc = "entry"
    /\ transformed' = transformTemplate(htmlContent, snpResults,
                                        genomeFilename, genomeDate,
                                        grandSummaryHTML,
                                        showDetailedAnnotations,
                                        showAllSubsections, now)
    /\ pc' = "return"
    /\ UNCHANGED <<call, allele1, allele2, rsId, alleleReference, zygosity,
                   rsIds, geneticData, results, content, extracted,
                   htmlContent, snpResults, showDetailedAnnotations,
                   showAllSubsections>>
    /\ UNCHANGED <<reportVars, parserVars, appVars>>

NextTransform == TransformTemplate

SpecTransform == InitTransform /\ [][NextTransform]_vars

\* The calls of handleGenerateReport that follow getSNPResults (App.tsx
\* lines 132-146), on every sectioned template and result map.
InitReport ==
    /\ IdleParser
    /\ IdleApp
    /\ call = "calculateSectionSummaries"
    /\ pc = "entry"
    /\ htmlContent \in SectionTemplates
    /\ snpResults \in SummaryMaps
    /\ showDetailedAnnotations \in BOOLEAN
    /\ showAllSubsections = FALSE
    /\ genomeFilename = <<"f">>
    /\ genomeDate = Undefined
    /\ grandSummaryHTML = <<>>
    /\ sectionSummaries = <<>>
    /\ now = 1
    /\ previous = <<>>
    /\ transformed = <<>>
    /\ allele1 = Undefined
    /\ allele2 = Undefined
    /\ rsId = Undefined
    /\ alleleReference = <<>>
    /\ zygosity = Pending
    /\ rsIds = <<>>
    /\ geneticData = <<>>
    /\ results = <<>>
    /\ content = <<>>
    /\ extracted = <<>>

CalculateSectionSummaries ==
    /\ call = "calculateSectionSummaries" /\ pc = "entry"
    /\ sectionSummaries' = calculateSectionSummaries(htmlContent, snpResults)
    /\ pc' = "return"
    /\ UNCHANGED <<call, allele1, allele2, rsId, alleleReference, zygosity,
                   rsIds, geneticData, results, content, extracted,
                   htmlContent, snpResults, showDetailedAnnotations,
                   showAllSubsections, transformed, genomeFilename,
                   genomeDate, grandSummaryHTML, now, previous, parserVars, appVars>>

\* App.tsx line 135: the summaries just calculated are rendered
GenerateGrandSummaryHTML ==
    /\ call = "calculateSectionSummaries" /\ pc = "return"
    /\ grandSummaryHTML' =
          <<generateGrandSummaryHTML(sectionSummaries,
                                     showDetailedAnnotations)>>
    /\ call' = "generateGrandSummaryHTML"
    /\ UNCHANGED <<pc, allele1, allele2, rsId, alleleReference, zygosity,
                   rsIds, geneticData, results, content, extracted,
                   htmlContent, snpResults, showDetailedAnnotations,
                   showAllSubsections, transformed, genomeFilename,
                   genomeDate, sectionSummaries, now, previous, parserVars, appVars>>

\* App.tsx lines 138-146: transformTemplate is called with the rendering
CallTransformTemplate ==
    /\ call = "generateGrandSummaryHTML" /\ pc = "return"
    /\ call' = "transformTemplate"
    /\ pc' = "entry"
    /\ UNCHANGED <<allele1, allele2, rsId, alleleReference, zygosity,
                   rsIds, geneticData, results, content, extracted,
                   htmlContent, snpResults, showDetailedAnnotations,
                   showAllSubsections, transformed, reportVars, parserVars, appVars>>

NextReport ==
    \/ CalculateSectionSummaries
    \/ GenerateGrandSummaryHTML
    \/ CallTransformTemplate
    \/ TransformTemplate

SpecReport == InitReport /\ [][NextReport]_vars

\* transformTemplate on every template of headings, with and without a
\* rendered grand summary and the genome file's name and date
InitPlacement ==
    /\ IdleParser
    /\ IdleApp
    /\ call = "transformTemplate"
    /\ pc = "entry"
    /\ htmlContent \in HeadingTemplates
    /\ snpResults = <<>>
    /\ showDetailedAnnotations = FALSE
    /\ showAllSubsections = FALSE
    /\ \E supplied \in BOOLEAN :
          /\ genomeFilename = IF supplied THEN <<"f">> ELSE Undefined
          /\ genomeDate = IF supplied THEN <<"d">> ELSE Undefined
    /\ grandSummaryHTML
          \in {<<>>, <<generateGrandSummaryHTML(<<>>, FALSE)>>}
    /\ sectionSummaries = <<>>
    /\ now = 1
    /\ previous = <<>>
    /\ transformed = <<>>
    /\ allele1 = Undefined
    /\ allele2 = Undefined
    /\ rsId = Undefined
    /\ alleleReference = <<>>
    /\ zygosity = Pending
    /\ rsIds = <<>>
    /\ geneticData = <<>>
    /\ results = <<>>
    /\ content = <<>>
    /\ extracted = <<>>

NextPlacement == TransformTemplate

SpecPlacement == InitPlacement /\ [][NextPlacement]_vars

\* A genotype file is parsed and the identifiers of a template are looked
\* up in the map it gives.
InitParse ==
    /\ IdleReport
    /\ IdleApp
    /\ call = "parseWithFormat"
    /\ pc = "entry"
    /\ \E lines \in SeqsUpTo(DataLines, MaxLines) :
          fileLines = <<HeaderLine>> \o lines
    /\ format \in {<<CombinedFormat>>, <<SeparateFormat>>}
    /\ geneticData = <<>>
    /\ rsIds = <<<<"r", "s", "1">>, <<"R", "S", "2">>>>
    /\ alleleReference \in ReportReferences
    /\ allele1 = Undefined
    /\ allele2 = Undefined
    /\ rsId = Undefined
    /\ zygosity = Pending
    /\ results = <<>>
    /\ content = <<>>
    /\ extracted = <<>>
    /\ htmlContent = <<>>
    /\ snpResults = <<>>
    /\ showDetailedAnnotations = FALSE
    /\ showAllSubsections = FALSE
    /\ transformed = <<>>

\* parseWithFormat hands the map to the application, which aggregates next
ParseWithFormat ==
    /\ call = "parseWithFormat" /\ pc = "entry"
    /\ geneticData' = parseWithFormat(fileLines, format[1])
    /\ call' = "getSNPResults"
    /\ UNCHANGED <<pc, allele1, allele2, rsId, alleleReference, zygosity,
                   rsIds, results, content, extracted, htmlContent,
                   snpResults, showDetailedAnnotations, showAllSubsections,
                   transformed, reportVars, parserVars, appVars>>

NextParse == ParseWithFormat \/ GetSNPResults

SpecParse == InitParse /\ [][NextParse]_vars

\* handleGenerateReport invoked repeatedly on the same loaded inputs
InitGenerate ==
    /\ IdleParser
    /\ IdleApp
    /\ call = "handleGenerateReport"
    /\ pc = "entry"
    /\ htmlContent \in ReportTemplates
    /\ geneticData \in GeneticDatas
    /\ alleleReference \in ReportReferences
    /\ showDetailedAnnotations \in BOOLEAN
    /\ showAllSubsections = FALSE
    /\ genomeFilename = <<"f">>
    /\ genomeDate = Undefined
    /\ now = 1
    /\ previous = <<>>
    /\ rsIds = <<>>
    /\ results = <<>>
    /\ snpResults = <<>>
    /\ sectionSummaries = <<>>
    /\ grandSummaryHTML = <<>>
    /\ transformed = <<>>
    /\ allele1 = Undefined
    /\ allele2 = Undefined
    /\ rsId = Undefined
    /\ zygosity = Pending
    /\ content = <<>>
    /\ extracted = <<>>

\* One invocation (App.tsx lines 109-164): the identifiers of the template
\* text, their results, the section summaries, the grand summary and the
\* transformed document, each computed from the ones before it.  The
\* templates hold no summary placeholder and only permitted markup, so
\* insertSummaries and sanitizeHTML (lines 149-152) leave the transformed
\* document as it is.  previous keeps what every invocation so far has
\* produced, and the day it ran.
HandleGenerateReport ==
    /\ call = "handleGenerateReport"
    /\ Len(previous) < MaxRuns
    /\ TemplateContent(htmlContent) # <<>>      \* line 115
    /\ rsIds' = extractRSIds(TemplateContent(htmlContent))
    /\ IF getSNPResults(rsIds', geneticData, alleleReference).threw
       THEN /\ pc' = "throw"
            /\ UNCHANGED <<results, snpResults, sectionSummaries,
                           grandSummaryHTML, transformed, previous>>
       ELSE /\ pc' = "return"
            /\ results' = getSNPResults(rsIds', geneticData,
                                        alleleReference).map
            /\ snpResults' = results'
            /\ sectionSummaries' =
                   calculateSectionSummaries(htmlContent, snpResults')
            /\ grandSummaryHTML' =
                   <<generateGrandSummaryHTML(sectionSummaries',
                                              showDetailedAnnotations)>>
            /\ transformed' =
                   transformTemplate(htmlContent, snpResults', genomeFilename,
                                     genomeDate, grandSummaryHTML',
                                     showDetailedAnnotations,
                                     showAllSubsections, now)
            /\ previous' = Append(previous,
                   [rsIds |-> rsIds',
                    snpResults |-> snpResults',
                    sectionSummaries |-> sectionSummaries',
                    grandSummaryHTML |-> grandSummaryHTML',
                    transformed |-> transformed',
                    day |-> now])
    /\ UNCHANGED <<call, allele1, allele2, rsId, alleleReference, zygosity,
                   geneticData, content, extracted, htmlContent,
                   showDetailedAnnotations, showAllSubsections,
                   genomeFilename, genomeDate, now, parserVars, appVars>>

\* midnight passes (new Date() of templateProcessor.ts line 494 reads the
\* clock)
Tick ==
    /\ call = "handleGenerateReport"
    /\ now < MaxDay
    /\ now' = now + 1
    /\ UNCHANGED <<call, pc, allele1, allele2, rsId, alleleReference,
                   zygosity, rsIds, geneticData, results, content, extracted,
                   htmlContent, snpResults, showDetailedAnnotations,
                   showAllSubsections, transformed, genomeFilename,
                   genomeDate, grandSummaryHTML, sectionSummaries, previous,
                   parserVars, appVars>>

NextGenerate == HandleGenerateReport \/ Tick

SpecGenerate == InitGenerate /\ [][NextGenerate]_vars

\* transformTemplate on templates without a contents heading and without
\* an introduction, some without any heading
InitAnchors ==
    /\ IdleParser
    /\ IdleApp
    /\ call = "transformTemplate"
    /\ pc = "entry"
    /\ htmlContent \in AnchorTemplates
    /\ snpResults \in AnchorMaps
    /\ showDetailedAnnotations = FALSE
    /\ showAllSubsections \in BOOLEAN
    /\ genomeFilename = <<"f">>
    /\ genomeDate = Undefined
    /\ grandSummaryHTML
          \in {<<>>, <<generateGrandSummaryHTML(<<>>, FALSE)>>}
    /\ sectionSummaries = <<>>
    /\ now = 1
    /\ previous = <<>>
    /\ transformed = <<>>
    /\ allele1 = Undefined
    /\ allele2 = Undefined
    /\ rsId = Undefined
    /\ alleleReference = <<>>
    /\ zygosity = Pending
    /\ rsIds = <<>>
    /\ geneticData = <<>>
    /\ results = <<>>
    /\ content = <<>>
    /\ extracted = <<>>

NextAnchors == TransformTemplate

SpecAnchors == InitAnchors /\ [][NextAnchors]_vars

\* transformTemplate on the templates of the metadata block, with and
\* without a file name, a genome date and a rendered grand summary
InitMetadata ==
    /\ IdleParser
    /\ IdleApp
    /\ call = "transformTemplate"
    /\ pc = "entry"
    /\ htmlContent \in TitleTemplates
    /\ snpResults = <<>>
    /\ showDetailedAnnotations = FALSE
    /\ showAllSubsections = FALSE
    /\ genomeFilename \in {<<"f">>, Undefined}
    /\ genomeDate \in {<<"d">>, Undefined}
    /\ grandSummaryHTML
          \in {<<>>, <<generateGrandSummaryHTML(<<>>, FALSE)>>}
    /\ sectionSummaries = <<>>
    /\ now = 1
    /\ previous = <<>>
    /\ transformed = <<>>
    /\ allele1 = Undefined
    /\ allele2 = Undefined
    /\ rsId = Undefined
    /\ alleleReference = <<>>
    /\ zygosity = Pending
    /\ rsIds = <<>>
    /\ geneticData = <<>>
    /\ results = <<>>
    /\ content = <<>>
    /\ extracted = <<>>

NextMetadata == TransformTemplate

SpecMetadata == InitMetadata /\ [][NextMetadata]_vars

\* The App component (App.tsx): the state hooks after mounting.  The
\* reference table is fetched on mount (lines 35-50) and is empty until
\* the fetch settles.
InitApp ==
    /\ IdleParser
    /\ call = "App"
    /\ pc = "entry"
    /\ app = [geneticDataFile |-> <<>>, geneticData |-> <<>>,
              geneticDataDate |-> Undefined, templateContent |-> <<>>,
              templateTitle |-> <<"G", "e", "n", "e", "t", "i", "c", " ", "R", "e", "p", "o", "r", "t">>,
              transformedHtml |-> <<>>, isProcessing |-> FALSE,
              error |-> ""]
    /\ parses = <<>>
    /\ alleleReference = <<>>
    /\ showDetailedAnnotations = FALSE
    /\ showAllSubsections = FALSE
    /\ htmlContent = <<>>
    /\ geneticData = <<>>
    /\ genomeFilename = Undefined
    /\ genomeDate = Undefined
    /\ now = 1
    /\ previous = <<>>
    /\ rsIds = <<>>
    /\ results = <<>>
    /\ snpResults = <<>>
    /\ sectionSummaries = <<>>
    /\ grandSummaryHTML = <<>>
    /\ transformed = <<>>
    /\ allele1 = Undefined
    /\ allele2 = Undefined
    /\ rsId = Undefined
    /\ zygosity = Pending
    /\ content = <<>>
    /\ extracted = <<>>

generateVars == <<htmlContent, geneticData, genomeFilename, genomeDate, rsIds, results, snpResults, sectionSummaries, grandSummaryHTML, transformed, previous>>

otherVars == <<call, pc, allele1, allele2, rsId, zygosity, content, extracted, now, parserVars>>

\* the fetch of the reference table settles (lines 36-49)
ReferenceLoaded ==
    /\ call = "App"
    /\ alleleReference = <<>>
    /\ alleleReference' = AppReference
    /\ UNCHANGED <<app, parses, generateVars, otherVars, showDetailedAnnotations, showAllSubsections>>

\* handleGeneticFileSelect up to its await (lines 75-84): the state is
\* reset and the parse of the file is started
SelectGeneticFile(file) ==
    /\ call = "App"
    /\ Len(parses) < MaxSelections
    /\ app' = [app EXCEPT !.geneticDataFile = <<file.name>>,
                          !.error = "",
                          !.geneticData = <<>>,
                          !.geneticDataDate = Undefined,
                          !.transformedHtml = <<>>]
    /\ parses' = Append(parses, [file |-> file, promise |-> "pending"])
    /\ UNCHANGED <<alleleReference, generateVars, otherVars, showDetailedAnnotations, showAllSubsections>>

\* handleGeneticFileSelect after its await (lines 84-95): the promise of
\* any parse that was started settles, and the handler stores its result
\* or reports its error.  Every selection has a FileReader of its own, so
\* the promises settle in any order.  The promise is settled as
\* parseGeneticDataFile settles it (geneticDataParser.ts lines 38-70):
\* rejected when the file cannot be read or no format is detected in its
\* first 30 lines, else fulfilled with the parsed map and the date.
ParseSettles(i, readable) ==
    /\ call = "App"
    /\ parses[i].promise = "pending"
    /\ fileLines' = parses[i].file.lines
    /\ format' = IF readable THEN detectFileFormat(Slice(fileLines', 30))
                 ELSE <<>>
    /\ IF format' = <<>>
       THEN /\ app' = [app EXCEPT !.error =
                          IF readable THEN "Unable to determine file format"
                          ELSE "Failed to read file"]
            /\ parses' = [parses EXCEPT ![i].promise = "rejected"]
       ELSE /\ app' = [app EXCEPT
                          !.geneticData = <<parseWithFormat(fileLines', format'[1])>>,
                          !.geneticDataDate = extractDateFromFirstLine(fileLines')]
            /\ parses' = [parses EXCEPT ![i].promise = "fulfilled"]
    /\ UNCHANGED <<alleleReference, generateVars, call, pc, allele1, allele2, rsId, zygosity, content, extracted, now, showDetailedAnnotations, showAllSubsections>>

\* handleTemplateLoad (lines 98-107)
HandleTemplateLoad(template) ==
    /\ call = "App"
    /\ app' = [app EXCEPT !.templateContent = template,
                          !.error = "",
                          !.transformedHtml = <<>>,
                          !.templateTitle = extractTemplateTitle(template)]
    /\ UNCHANGED <<parses, alleleReference, generateVars, otherVars, showDetailedAnnotations, showAllSubsections>>

\* line 243; Object.keys(geneticData).length > 0 is a non-empty map
canGenerate ==
    /\ app.geneticData # <<>>
    /\ DOMAIN app.geneticData[1] # {}
    /\ TemplateContent(app.templateContent) # <<>>
    /\ ~app.isProcessing

\* the two check boxes (lines 310 and 324)
ToggleDetailedAnnotations ==
    /\ call = "App"
    /\ showDetailedAnnotations' = ~showDetailedAnnotations
    /\ UNCHANGED <<app, parses, alleleReference, generateVars, otherVars, showAllSubsections>>

ToggleAllSubsections ==
    /\ call = "App"
    /\ showAllSubsections' = ~showAllSubsections
    /\ UNCHANGED <<app, parses, alleleReference, generateVars, otherVars, showDetailedAnnotations>>

\* handleGenerateReport behind its button (lines 109-164, 334-335): the
\* handler runs to its end within one event, so isProcessing is FALSE
\* again when it has run.  previous keeps the template content and the
\* genotype map that the report was generated from.
GenerateReport ==
    /\ call = "App"
    /\ canGenerate
    /\ htmlContent' = app.templateContent
    /\ geneticData' = app.geneticData[1]
    /\ genomeFilename' = IF app.geneticDataFile = <<>> THEN Undefined
                         ELSE app.geneticDataFile[1]
    /\ genomeDate' = app.geneticDataDate
    /\ rsIds' = extractRSIds(TemplateContent(htmlContent'))
    /\ IF getSNPResults(rsIds', geneticData', alleleReference).threw
       THEN /\ app' = [app EXCEPT !.error = "Failed to generate report"]
            /\ UNCHANGED <<results, snpResults, sectionSummaries,
                           grandSummaryHTML, transformed, previous>>
       ELSE /\ results' = getSNPResults(rsIds', geneticData',
                                        alleleReference).map
            /\ snpResults' = results'
            /\ sectionSummaries' =
                   calculateSectionSummaries(htmlContent', snpResults')
            /\ grandSummaryHTML' =
                   <<generateGrandSummaryHTML(sectionSummaries',
                                              showDetailedAnnotations)>>
            /\ transformed' =
                   transformTemplate(htmlContent', snpResults', genomeFilename',
                                     genomeDate', grandSummaryHTML',
                                     showDetailedAnnotations,
                                     showAllSubsections, now)
            /\ previous' = <<[templateContent |-> app.templateContent,
                              geneticData |-> app.geneticData]>>
            /\ app' = [app EXCEPT !.error = "",
                                  !.transformedHtml = transformed']
    /\ UNCHANGED <<parses, alleleReference, otherVars, showDetailedAnnotations, showAllSubsections>>

NextApp ==
    \/ ReferenceLoaded
    \/ \E file \in GenomeFiles : SelectGeneticFile(file)
    \/ \E i \in 1..Len(parses), readable \in BOOLEAN : ParseSettles(i, readable)
    \/ \E template \in AppTemplates : HandleTemplateLoad(template)
    \/ ToggleDetailedAnnotations
    \/ ToggleAllSubsections
    \/ GenerateReport

SpecApp == InitApp /\ [][NextApp]_vars

----------------------------------------------------------------------------
(* Properties of the classifier and the aggregator *)

Returned(fn) == call = fn /\ pc = "return"

IsMissingAllele(a) == a = Undefined \/ a = <<>> \/ a = <<"-">>

\* absent, empty or whitespace-only
IsBlank(e) == e = Undefined \/ \A i \in 1..Len(e) : e[i] \in WhiteSpace

\* the position of the reference entry that find selects, 0 if there is none
ReferenceIndex(table, id) ==
    LET hits == {i \in 1..Len(table) :
                    ToUpperCase(table[i].rsId) = ToUpperCase(id)}
    IN  IF hits = {} THEN 0 ELSE CHOOSE i \in hits : \A j \in hits : i <= j

HasEffectAllele(table, id) ==
    /\ ReferenceIndex(table, id) # 0
    /\ ~IsBlank(table[ReferenceIndex(table, id)].problemAllele)

\* C1: determineZygosity returns 'Data Missing' whenever allele1 or allele2
\* is '-', empty or absent, for every identifier and every reference table
\* (entry with an effect allele, with a blank one, or no entry).
C1_MissingAlleleIsDataMissing ==
    (call = "determineZygosity" /\ pc # "entry"
        /\ (IsMissingAllele(allele1) \/ IsMissingAllele(allele2)))
    => (pc = "return" /\ zygosity = "Data Missing")

\* a missing allele next to a present one, with a usable effect allele
C1_Witness ==
    /\ Returned("determineZygosity")
    /\ allele1 = <<"G">> /\ allele2 = <<"-">>
    /\ HasEffectAllele(alleleReference, rsId)
    /\ zygosity = "Data Missing"

\* C2: with a reference entry whose effect allele E is not blank and two
\* non-missing alleles, compared upper-cased: Homozygous iff both alleles
\* equal E, Heterozygous iff exactly one does (in either position), Wild
\* iff neither does.
C2_EffectAlleleDecidesZygosity ==
    (call = "determineZygosity" /\ pc # "entry"
        /\ ~IsMissingAllele(allele1) /\ ~IsMissingAllele(allele2)
        /\ HasEffectAllele(alleleReference, rsId))
    => LET E  == ToUpperCase(
                   alleleReference[ReferenceIndex(alleleReference,
                                                  rsId)].problemAllele)
           m1 == ToUpperCase(allele1) = E
           m2 == ToUpperCase(allele2) = E
       IN  /\ pc = "return"
           /\ zygosity = "Homozygous" <=> (m1 /\ m2)
           /\ zygosity = "Heterozygous" <=> (m1 # m2)
           /\ zygosity = "Wild" <=> (~m1 /\ ~m2)

\* the effect allele in second position, in the other letter case
C2_Witness ==
    /\ Returned("determineZygosity")
    /\ allele1 = <<"a">> /\ allele2 = <<"g">>
    /\ HasEffectAllele(alleleReference, rsId)
    /\ alleleReference[ReferenceIndex(alleleReference, rsId)].problemAllele
          = <<"G">>
    /\ zygosity = "Heterozygous"

C4_Total ==
    /\ pc # "throw"
    /\ Returned("determineZygosity") => zygosity \in Zygosity
    /\ Returned("getSNPResults") =>
          \A i \in 1..Len(results) : results[i].value.zygosity \in Zygosity

\* a genotype without a reference entry next to an absent genotype
C4_Witness ==
    /\ Returned("getSNPResults")
    /\ \E i \in 1..Len(rsIds) :
          /\ ToUpperCase(rsIds[i]) \in DOMAIN geneticData
          /\ ReferenceIndex(alleleReference, rsIds[i]) = 0
    /\ \E i \in 1..Len(results) :
          results[i].value.zygosity = "Reference Missing"
    /\ \E i \in 1..Len(results) :
          results[i].value.zygosity = "Data Missing"

\* the result stored under the canonical key of identifier id
ResultOf(id) ==
    results[CHOOSE i \in 1..Len(results) :
                results[i].key = ToUpperCase(id)].value

HasResult(id) ==
    \E i \in 1..Len(results) : results[i].key = ToUpperCase(id)

ReferenceField(id, field) ==
    IF ReferenceIndex(alleleReference, id) = 0 THEN Undefined
    ELSE alleleReference[ReferenceIndex(alleleReference, id)][field]

\* C5: an identifier without a genotype entry gets state 'Data Missing',
\* alleles '--', and the effect allele and gene of its reference entry
\* (absent when there is none).
C5_AbsentGenotype ==
    Returned("getSNPResults") =>
      \A i \in 1..Len(rsIds) :
        ToUpperCase(rsIds[i]) \notin DOMAIN geneticData =>
          /\ HasResult(rsIds[i])
          /\ ResultOf(rsIds[i]).zygosity = "Data Missing"
          /\ ResultOf(rsIds[i]).alleles = <<"-", "-">>
          /\ ResultOf(rsIds[i]).effectAllele
                = ReferenceField(rsIds[i], "problemAllele")
          /\ ResultOf(rsIds[i]).gene = ReferenceField(rsIds[i], "gene")

\* no genotype, but a reference entry with effect allele and gene
C5_Witness ==
    /\ Returned("getSNPResults")
    /\ \E i \in 1..Len(rsIds) :
          /\ ToUpperCase(rsIds[i]) \notin DOMAIN geneticData
          /\ ReferenceField(rsIds[i], "problemAllele") = <<"G">>
          /\ ResultOf(rsIds[i]).gene = <<"G", "1">>
          /\ ResultOf(rsIds[i]).zygosity = "Data Missing"

\* C6: an identifier with a genotype entry gets the state that
\* determineZygosity gives for the entry's two alleles, alleles equal to
\* allele1 followed by allele2 in their original case, and the effect
\* allele and gene of the reference entry.
C6_PresentGenotype ==
    Returned("getSNPResults") =>
      \A i \in 1..Len(rsIds) :
        ToUpperCase(rsIds[i]) \in DOMAIN geneticData =>
          LET d == geneticData[ToUpperCase(rsIds[i])]
          IN  /\ HasResult(rsIds[i])
              /\ ResultOf(rsIds[i]).zygosity
                    = determineZygosity(d.allele1, d.allele2, rsIds[i],
                                        alleleReference)
              /\ Len(ResultOf(rsIds[i]).alleles)
                    = Len(d.allele1) + Len(d.allele2)
              /\ \A k \in 1..Len(d.allele1) :
                    ResultOf(rsIds[i]).alleles[k] = d.allele1[k]
              /\ \A k \in 1..Len(d.allele2) :
                    ResultOf(rsIds[i]).alleles[Len(d.allele1) + k]
                      = d.allele2[k]
              /\ ResultOf(rsIds[i]).effectAllele
                    = ReferenceField(rsIds[i], "problemAllele")
              /\ ResultOf(rsIds[i]).gene = ReferenceField(rsIds[i], "gene")

\* a lower-case allele is stored as it was observed
C6_Witness ==
    /\ Returned("getSNPResults")
    /\ \E i \in 1..Len(rsIds) :
          /\ ToUpperCase(rsIds[i]) \in DOMAIN geneticData
          /\ geneticData[ToUpperCase(rsIds[i])].allele1 = <<"a">>
          /\ ResultOf(rsIds[i]).alleles = <<"a", "G">>
          /\ ResultOf(rsIds[i]).zygosity = "Heterozygous"

FirstIndex(seq, x) ==
    CHOOSE i \in 1..Len(seq) :
        seq[i] = x /\ \A j \in 1..Len(seq) : seq[j] = x => i <= j

\* C7: the returned map has exactly one key per distinct upper-cased
\* identifier, every key is the upper case of an input identifier, and the
\* keys iterate in the order of first appearance in the input list.
C7_KeysInFirstAppearanceOrder ==
    Returned("getSNPResults") =>
      LET keys  == MapKeys(results)
          upper == [i \in 1..Len(rsIds) |-> ToUpperCase(rsIds[i])]
      IN  /\ \A p, q \in 1..Len(keys) : keys[p] = keys[q] => p = q
          /\ {keys[p] : p \in 1..Len(keys)}
                = {upper[i] : i \in 1..Len(upper)}
          /\ \A p, q \in 1..Len(keys) :
                p < q => FirstIndex(upper, keys[p]) < FirstIndex(upper, keys[q])

\* an identifier repeated in the other letter case after a second one
C7_Witness ==
    /\ Returned("getSNPResults")
    /\ rsIds = << <<"R","S","1">>, <<"r","s","2">>, <<"r","s","1">> >>
    /\ MapKeys(results) = << <<"R","S","1">>, <<"R","S","2">> >>


\* [p, e) is an identifier of text s standing as a whole word: 'RS' in
\* either case, one or more digits, no word character on either side
IsIdentifierAt(s, p, e) ==
    /\ p >= 1 /\ e <= Len(s) + 1 /\ e >= p + 3
    /\ s[p] \in {"R", "r"} /\ s[p + 1] \in {"S", "s"}
    /\ \A k \in (p + 2)..(e - 1) : s[k] \in Digits
    /\ (p = 1 \/ ~IsWordChar(s[p - 1]))
    /\ (e = Len(s) + 1 \/ ~IsWordChar(s[e]))

\* [p, e) is 'RS' in either case followed by all the digits after it,
\* whatever stands around it
IsPatternAt(s, p, e) ==
    /\ p >= 1 /\ e <= Len(s) + 1 /\ e >= p + 3
    /\ s[p] \in {"R", "r"} /\ s[p + 1] \in {"S", "s"}
    /\ \A k \in (p + 2)..(e - 1) : s[k] \in Digits
    /\ (e = Len(s) + 1 \/ s[e] \notin Digits)

Spans(s) == {pe \in (1..Len(s)) \X (1..(Len(s) + 1)) : pe[1] < pe[2]}

WholeWordIds(s) ==
    {ToUpperCase(SubSeq(s, pe[1], pe[2] - 1)) :
        pe \in {x \in Spans(s) : IsIdentifierAt(s, x[1], x[2])}}

PatternIds(s) ==
    {ToUpperCase(SubSeq(s, pe[1], pe[2] - 1)) :
        pe \in {x \in Spans(s) : IsPatternAt(s, x[1], x[2])}}

\* where the identifier id first starts in s as a whole word
FirstStart(s, id) ==
    CHOOSE p \in 1..Len(s) :
        /\ \E e \in 1..(Len(s) + 1) :
              IsIdentifierAt(s, p, e) /\ ToUpperCase(SubSeq(s, p, e - 1)) = id
        /\ \A q \in 1..(p - 1) : \A e \in 1..(Len(s) + 1) :
              ~(IsIdentifierAt(s, q, e)
                  /\ ToUpperCase(SubSeq(s, q, e - 1)) = id)

\* C8 as stated: extractRSIds returns the upper case of everything that
\* 'RS followed by one or more digits' matches in the text, case-
\* insensitively, without duplicates.
C8_EveryPatternMatchIsReturned ==
    Returned("extractRSIds") =>
      {extracted[i] : i \in 1..Len(extracted)} = PatternIds(content)

\* C8 amended: extractRSIds returns the identifiers that stand in the text
\* as whole words (no letter, digit or underscore directly before 'RS' or
\* after the last digit), each in upper case, without duplicates, in the
\* order of first occurrence; a text without such a word gives the empty
\* list.
C8_WholeWordIdentifiers ==
    Returned("extractRSIds") =>
      /\ \A i, j \in 1..Len(extracted) : extracted[i] = extracted[j] => i = j
      /\ {extracted[i] : i \in 1..Len(extracted)} = WholeWordIds(content)
      /\ \A i, j \in 1..Len(extracted) :
            i < j => FirstStart(content, extracted[i])
                       < FirstStart(content, extracted[j])
      /\ WholeWordIds(content) = {} => extracted = <<>>

\* an identifier, a second one, and the first again in lower case
C8_Witness ==
    /\ Returned("extractRSIds")
    /\ content = <<"r","S","2", " ", "R","S","1", ",", "r","s","1">>
    /\ extracted = << <<"R","S","2">>, <<"R","S","1">> >>


\* the identifiers that stand in the text nodes of an element: the ones
\* the substitution pass annotates
OwnIds(el) ==
    UNION {{extractRSIds(el.texts[k])[n] :
              n \in 1..Len(extractRSIds(el.texts[k]))} :
           k \in 1..Len(el.texts)}

\* the state an identifier resolves to in snpResults, "none" without entry
StateOf(id) ==
    IF MapHas(snpResults, id) THEN MapGet(snpResults, id)[1].zygosity
    ELSE "none"

\* C9: a recognized subsection (a list item with identifiers) is hidden
\* exactly when showAllSubsections is false and every identifier it
\* contains resolves to 'Wild' or 'Data Missing'; with showAllSubsections
\* true no subsection is hidden.
C9_HiddenIffAllNonVariant ==
    Returned("transformTemplate") =>
      \A i \in 1..Len(htmlContent) :
        (IsSubsection(htmlContent[i]) /\ OwnIds(htmlContent[i]) # {}) =>
          (transformed[i].display = "none"
             <=> (/\ ~showAllSubsections
                  /\ \A id \in OwnIds(htmlContent[i]) :
                        StateOf(id) \in {"Wild", "Data Missing"}))

\* C10: a subsection with at least one identifier whose state is
\* Homozygous, Heterozygous or Reference Missing is never hidden, whatever
\* the other identifiers and the flags.
C10_VariantSubsectionShown ==
    Returned("transformTemplate") =>
      \A i \in 1..Len(htmlContent) :
        (/\ IsSubsection(htmlContent[i])
         /\ \E id \in OwnIds(htmlContent[i]) :
               StateOf(id) \in {"Homozygous", "Heterozygous",
                                "Reference Missing"})
        => transformed[i].display # "none"

----------------------------------------------------------------------------
(* Properties of the section summaries and the grand summary *)

\* the position after the span of the heading at i: the next h3, or the
\* end of the document
SpanEnd(doc, i) ==
    CHOOSE e \in (i + 1)..(Len(doc) + 1) :
        /\ e = Len(doc) + 1 \/ doc[e].tag = "h3"
        /\ \A j \in (i + 1)..(e - 1) : doc[j].tag # "h3"

\* the text of that span: the text of its elements, a space between them
SpanText(doc, i) ==
    Join([k \in 1..(SpanEnd(doc, i) - i - 1) |-> Concat(doc[i + k].texts)],
         <<" ">>)

\* the distinct identifiers of the span
SpanIds(doc, i) == WholeWordIds(SpanText(doc, i))

ContainsIntro(text) ==
    \E q \in 1..(Len(text) - 4) :
        ToLowerCase(SubSeq(text, q, q + 4)) = <<"i", "n", "t", "r", "o">>

\* the h3 headings that are to be reported: no 'intro' in the text and an
\* identifier in the span
ReportedHeadings(doc) ==
    {i \in 1..Len(doc) :
        /\ doc[i].tag = "h3"
        /\ ~ContainsIntro(Concat(doc[i].texts))
        /\ SpanIds(doc, i) # {}}

RECURSIVE Ascending(_)
Ascending(S) ==
    IF S = {} THEN <<>>
    ELSE LET m == CHOOSE x \in S : \A y \in S : x <= y
         IN  <<m>> \o Ascending(S \ {m})

SummariesReturned ==
    /\ call \in {"calculateSectionSummaries", "generateGrandSummaryHTML",
                  "transformTemplate"}
    /\ ~(call = "calculateSectionSummaries" /\ pc = "entry")

\* C11: calculateSectionSummaries emits, in document order, exactly one
\* summary for each h3 heading whose text does not contain 'intro' (in any
\* letter case) and whose span up to the next h3 contains an identifier,
\* and none for an intro heading or a section without identifiers.
C11_OneSummaryPerReportedSection ==
    SummariesReturned =>
      LET hs == Ascending(ReportedHeadings(htmlContent))
      IN  /\ Len(sectionSummaries) = Len(hs)
          /\ \A k \in 1..Len(hs) :
                /\ sectionSummaries[k].sectionName
                      = SectionName(htmlContent[hs[k]])
                /\ sectionSummaries[k].totalCount
                      = Cardinality(SpanIds(htmlContent, hs[k]))

\* an intro section with identifiers and a section without identifiers
\* are left out, the section after them is reported
C11_Witness ==
    /\ SummariesReturned
    /\ Len(htmlContent) = 7
    /\ htmlContent[1].texts = <<<<"A", "n", " ", "I", "N", "T", "R", "O">>>>
    /\ htmlContent[2].texts = <<<<"r", "s", "1", " ", "r", "s", "2">>>>
    /\ htmlContent[3].texts = <<<<" ", "B", " ", " ", "&", "b", " ">>>>
    /\ htmlContent[4].texts = <<<<"x">>>>
    /\ htmlContent[5].tag = "h3"
    /\ Len(sectionSummaries) = 1
    /\ sectionSummaries[1].sectionName = <<"A">>
    /\ sectionSummaries[1].totalCount = 4

\* the distinct identifiers of the span that resolve to the state
StateCount(doc, i, state) ==
    Cardinality({id \in SpanIds(doc, i) : StateOf(id) = state})

\* p is count / total * 100
IsPercentage(p, count, total) ==
    p.den > 0 /\ p.num * total = count * 100 * p.den

\* C12: in every emitted summary each state's percentage is count /
\* totalCount * 100, totalCount being the number of distinct identifiers
\* of that section's span whatever the other sections hold; four
\* identifiers, one each Homozygous, Heterozygous, Wild and Data Missing,
\* give 25 for each of the four.
C12_PercentOfSectionTotal ==
    SummariesReturned =>
      LET hs == Ascending(ReportedHeadings(htmlContent))
      IN  \A k \in 1..Len(sectionSummaries) :
            LET s == sectionSummaries[k]
                count(z) == StateCount(htmlContent, hs[k], z)
            IN  /\ s.totalCount = Cardinality(SpanIds(htmlContent, hs[k]))
                /\ IsPercentage(s.homozygousPercent, count("Homozygous"),
                                s.totalCount)
                /\ IsPercentage(s.heterozygousPercent,
                                count("Heterozygous"), s.totalCount)
                /\ IsPercentage(s.wildPercent, count("Wild"), s.totalCount)
                /\ IsPercentage(s.missingPercent, count("Data Missing"),
                                s.totalCount)
                /\ IsPercentage(s.referenceMissingPercent,
                                count("Reference Missing"), s.totalCount)
                /\ (/\ s.totalCount = 4
                    /\ \A z \in {"Homozygous", "Heterozygous", "Wild",
                                  "Data Missing"} : count(z) = 1)
                   => /\ s.homozygousPercent = [num |-> 25, den |-> 1]
                      /\ s.heterozygousPercent = [num |-> 25, den |-> 1]
                      /\ s.wildPercent = [num |-> 25, den |-> 1]
                      /\ s.missingPercent = [num |-> 25, den |-> 1]

\* a section of four identifiers in four states next to a section that
\* repeats one of them
C12_Witness ==
    /\ SummariesReturned
    /\ Len(sectionSummaries) = 2
    /\ sectionSummaries[1].totalCount = 4
    /\ sectionSummaries[1].homozygousPercent = [num |-> 25, den |-> 1]
    /\ sectionSummaries[1].heterozygousPercent = [num |-> 25, den |-> 1]
    /\ sectionSummaries[1].wildPercent = [num |-> 25, den |-> 1]
    /\ sectionSummaries[1].missingPercent = [num |-> 25, den |-> 1]
    /\ sectionSummaries[2].totalCount = 1
    /\ sectionSummaries[2].homozygousPercent = [num |-> 100, den |-> 1]

GrandSummaryReturned ==
    call \in {"generateGrandSummaryHTML", "transformTemplate"}

\* the sum of one count over all section summaries
RECURSIVE SumOf(_, _)
SumOf(summaries, field) ==
    IF summaries = <<>> THEN 0
    ELSE Head(summaries)[field] + SumOf(Tail(summaries), field)

\* the number of reported sections whose span holds the identifier
SectionsWith(doc, id) ==
    Cardinality({i \in ReportedHeadings(doc) : id \in SpanIds(doc, i)})

\* the sum, over the first n identifiers, of the number of reported
\* sections that hold each
RECURSIVE OccurrencesUpTo(_, _)
OccurrencesUpTo(doc, n) ==
    IF n = 0 THEN 0
    ELSE SectionsWith(doc, SummaryKeys[n]) + OccurrencesUpTo(doc, n - 1)

\* C13: the grand totals of generateGrandSummaryHTML are the sums of the
\* per-section counts (total, homozygous, heterozygous, wild, missing,
\* reference-missing) over all section summaries, and an identifier that
\* appears in k sections contributes k to the grand total.
C13_GrandTotalsAreSums ==
    GrandSummaryReturned =>
      LET g == grandSummaryHTML[1]
      IN  /\ g.grandTotals.totalSNPs = SumOf(sectionSummaries, "totalCount")
          /\ g.grandTotals.homozygousCount
                = SumOf(sectionSummaries, "homozygousCount")
          /\ g.grandTotals.heterozygousCount
                = SumOf(sectionSummaries, "heterozygousCount")
          /\ g.grandTotals.wildCount = SumOf(sectionSummaries, "wildCount")
          /\ g.grandTotals.missingCount
                = SumOf(sectionSummaries, "missingCount")
          /\ g.grandTotals.referenceMissingCount
                = SumOf(sectionSummaries, "referenceMissingCount")
          /\ g.snpsWithData
                = SumOf(sectionSummaries, "totalCount")
                    - SumOf(sectionSummaries, "missingCount")
          /\ g.grandTotals.totalSNPs
                = OccurrencesUpTo(htmlContent, Len(SummaryKeys))

\* four distinct identifiers, two of them in two sections: total six
C13_Witness ==
    /\ GrandSummaryReturned
    /\ Len(sectionSummaries) = 2
    /\ SectionsWith(htmlContent, <<"R", "S", "1">>) = 2
    /\ SectionsWith(htmlContent, <<"R", "S", "2">>) = 2
    /\ SectionsWith(htmlContent, <<"R", "S", "3">>) = 1
    /\ grandSummaryHTML[1].grandTotals.totalSNPs = 6
    /\ grandSummaryHTML[1].grandTotals.homozygousCount = 2

Rows == grandSummaryHTML[1].rows

\* C14 as stated: of two consecutive rows of the grand summary the earlier
\* has the greater homozygous percentage.
C14_StrictlyDescending ==
    GrandSummaryReturned =>
      \A k \in 1..(Len(Rows) - 1) :
        PercentBelow(Rows[k + 1].summary.homozygousPercent,
                     Rows[k].summary.homozygousPercent)

\* C14 amended: the rows are the section summaries, one row each, ordered
\* by homozygous percentage from high to low; of two consecutive rows the
\* earlier has a percentage greater than or equal to the later's, and
\* sections with equal percentages keep their document order.
C14_DescendingTiesInDocumentOrder ==
    GrandSummaryReturned =>
      /\ Len(Rows) = Len(sectionSummaries)
      /\ \E perm \in [1..Len(Rows) -> 1..Len(Rows)] :
            /\ \A k, l \in 1..Len(Rows) : perm[k] = perm[l] => k = l
            /\ \A k \in 1..Len(Rows) :
                  Rows[k].summary = sectionSummaries[perm[k]]
            /\ \A k, l \in 1..Len(Rows) :
                  k < l =>
                    /\ ~PercentBelow(Rows[k].summary.homozygousPercent,
                                     Rows[l].summary.homozygousPercent)
                    /\ Rows[k].summary.homozygousPercent
                          = Rows[l].summary.homozygousPercent
                        => perm[k] < perm[l]

\* a section at 0 percent before two sections at 100 percent: the two
\* move to the front in their document order
C14_Witness ==
    /\ GrandSummaryReturned
    /\ Len(sectionSummaries) = 3
    /\ sectionSummaries[1].homozygousPercent = [num |-> 0, den |-> 1]
    /\ sectionSummaries[2].sectionName = <<"A">>
    /\ sectionSummaries[3].sectionName = <<"B", " ", " ", "&", "b">>
    /\ Rows[1].summary = sectionSummaries[2]
    /\ Rows[2].summary = sectionSummaries[3]
    /\ Rows[3].summary = sectionSummaries[1]
    /\ Rows[1].summary.homozygousPercent = [num |-> 100, den |-> 1]
    /\ Rows[2].summary.homozygousPercent = [num |-> 100, den |-> 1]

\* the lower-cased name with every character outside [a-z0-9] turned into
\* a hyphen
Hyphenated(name) ==
    [q \in 1..Len(name) |->
        IF LowerChar(name[q]) \in LowerAlnum THEN LowerChar(name[q]) ELSE "-"]

\* 'section-' and the lower-cased name in which every maximal run of
\* characters outside [a-z0-9] is a single hyphen: of each run of hyphens
\* of Hyphenated(name) only the first is kept
Slug(name) ==
    LET h    == Hyphenated(name)
        kept == Ascending({q \in 1..Len(h) :
                             h[q] # "-" \/ q = 1 \/ h[q - 1] # "-"})
    IN  <<"s", "e", "c", "t", "i", "o", "n", "-">> \o [k \in 1..Len(kept) |-> h[kept[k]]]

\* the name of the section a node of the output is the heading of
HeadingName(node) == Trim(Concat(htmlContent[node.origin].texts))

\* C15: the id that transformTemplate gives a section heading and the
\* link target that generateGrandSummaryHTML renders for the section of
\* that name are the same string, 'section-' followed by the lower-cased
\* name with every maximal run of characters outside [a-z0-9] replaced by
\* one hyphen.
C15_HeadingIdIsLinkTarget ==
    Returned("transformTemplate") =>
      /\ \A k \in 1..Len(Rows) :
            Rows[k].href = <<"#">> \o Slug(Rows[k].summary.sectionName)
      /\ \A i \in 1..Len(transformed) :
            (transformed[i].tag = "h3" /\ transformed[i].id # <<>>) =>
              /\ transformed[i].id = Slug(HeadingName(transformed[i]))
              /\ \A k \in 1..Len(Rows) :
                    Rows[k].summary.sectionName
                        = HeadingName(transformed[i])
                    => Rows[k].href = <<"#">> \o transformed[i].id
      /\ \A i \in 1..Len(transformed) :
            (/\ transformed[i].tag = "h3"
             /\ HeadingName(transformed[i]) # <<>>
             /\ ~ContainsIntro(HeadingName(transformed[i])))
            => transformed[i].id # <<>>

\* a name with upper case, two blanks and an ampersand in a row
C15_Witness ==
    /\ Returned("transformTemplate")
    /\ \E i \in 1..Len(transformed) : \E k \in 1..Len(Rows) :
          /\ transformed[i].tag = "h3"
          /\ HeadingName(transformed[i]) = <<"B", " ", " ", "&", "b">>
          /\ Rows[k].summary.sectionName = <<"B", " ", " ", "&", "b">>
          /\ transformed[i].id = <<"s", "e", "c", "t", "i", "o", "n", "-", "b", "-", "b">>
          /\ Rows[k].href = <<"#", "s", "e", "c", "t", "i", "o", "n", "-", "b", "-", "b">>

----------------------------------------------------------------------------
(* Properties of the annotations *)

\* the element a node of the output was parsed from
SourceOf(node) == htmlContent[node.origin]

\* the label, colour and weight that belong to a state; "none" is an
\* identifier without an entry in the result map
LabelOf(state) ==
    CASE state = "Homozygous"   -> <<"U+2601", "U+FE0F", " ", "H", "o", "m", "o", "z", "y", "g", "o", "u", "s">>
      [] state = "Heterozygous" -> <<"U+2601", " ", "H", "e", "t", "e", "r", "o", "z", "y", "g", "o", "u", "s">>
      [] state = "Wild"         -> <<"W", "i", "l", "d">>
      [] state = "Reference Missing" -> <<"[", "R", "e", "f", "e", "r", "e", "n", "c", "e", " ", "M", "i", "s", "s", "i", "n", "g", "]">>
      [] OTHER                  -> <<"[", "D", "a", "t", "a", " ", "M", "i", "s", "s", "i", "n", "g", "]">>

ColorOf(state) ==
    CASE state = "Homozygous"   -> "red"
      [] state = "Heterozygous" -> "#b8860b"
      [] state = "Wild"         -> "black"
      [] OTHER                  -> "grey"

WeightOf(state) ==
    CASE state = "Homozygous"   -> "bold"
      [] state = "Heterozygous" -> "normal"
      [] OTHER                  -> ""

\* the annotated identifier: the matched text as it stood and the label
\* in its colour; the grey labels have the matched text inside the span
ExpectedAnnotation(match) ==
    LET state == StateOf(ToUpperCase(match))
    IN  IF ColorOf(state) = "grey"
        THEN <<Styled(match \o <<" ">> \o LabelOf(state), "grey", "")>>
        ELSE <<Plain(match \o <<" ">>),
               Styled(LabelOf(state), ColorOf(state), WeightOf(state))>>

\* the detail suffix that follows it
ExpectedSuffix(match) ==
    IF MapHas(snpResults, ToUpperCase(match))
    THEN DetailedPieces(MapGet(snpResults, ToUpperCase(match))[1],
                        showDetailedAnnotations)
    ELSE <<>>

\* the markup of a text from position q on, every whole-word identifier
\* annotated and every other character left as it is
RECURSIVE ExpectedMarkup(_, _)
ExpectedMarkup(t, q) ==
    IF q > Len(t) THEN <<>>
    ELSE IF \E e \in (q + 3)..(Len(t) + 1) : IsIdentifierAt(t, q, e)
    THEN LET e == CHOOSE x \in (q + 3)..(Len(t) + 1) : IsIdentifierAt(t, q, x)
         IN  ExpectedAnnotation(SubSeq(t, q, e - 1))
               \o ExpectedSuffix(SubSeq(t, q, e - 1))
               \o ExpectedMarkup(t, e)
    ELSE <<Plain(<<t[q]>>)>> \o ExpectedMarkup(t, q + 1)

IdentifierNodes ==
    {ik \in (1..Len(transformed)) \X (1..MaxTexts + 1) :
        /\ transformed[ik[1]].origin > 0
        /\ ik[2] <= Len(SourceOf(transformed[ik[1]]).texts)
        /\ LET t == SourceOf(transformed[ik[1]]).texts[ik[2]]
           IN  IsIdentifierAt(t, 1, Len(t) + 1)}

----------------------------------------------------------------------------
(* Properties of the placement of the grand summary *)

\* the text contains the words, whatever the letter case
ContainsWords(text, words) ==
    \E q \in 1..(Len(text) - Len(words) + 1) :
        ToLowerCase(SubSeq(text, q, q + Len(words) - 1)) = words

\* the first heading of the template, of any level, whose text contains
\* the words; 0 if there is none
FirstHeadingContaining(words) ==
    LET hs == {i \in 1..Len(htmlContent) :
                  /\ htmlContent[i].tag
                        \in {"h1", "h2", "h3", "h4", "h5", "h6"}
                  /\ ContainsWords(Concat(htmlContent[i].texts), words)}
    IN  IF hs = {} THEN 0 ELSE CHOOSE i \in hs : \A j \in hs : i <= j

HasHeading ==
    \E i \in 1..Len(htmlContent) :
        htmlContent[i].tag \in {"h1", "h2", "h3", "h4", "h5", "h6"}

\* where the grand-summary block stands in the output
BlockPositions ==
    {b \in 1..Len(transformed) : transformed[b].id = <<"g", "r", "a", "n", "d", "-", "s", "u", "m", "m", "a", "r", "y">>}

\* the block created for the metadata: its last item is the report date
IsMetadataBlock(node) ==
    /\ node.origin = 0
    /\ Len(node.texts) >= 2
    /\ node.texts[Len(node.texts) - 1] = <<"R", "e", "p", "o", "r", "t", " ", "G", "e", "n", "e", "r", "a", "t", "e", "d", ":">>

\* the block at b stands where the element at position i of the template
\* stood, and that element is gone
StandsInPlaceOf(b, i) ==
    \A j \in 1..Len(transformed) :
        /\ transformed[j].origin # i
        /\ (transformed[j].origin > 0 /\ transformed[j].origin < i) => j < b
        /\ transformed[j].origin > i => j > b

\* the block is at one position, chosen by the three rules in order
PlacedByPriority ==
    /\ Cardinality(BlockPositions) = 1
    /\ LET b     == CHOOSE x \in BlockPositions : TRUE
           toc   == FirstHeadingContaining(<<"t", "a", "b", "l", "e", " ", "o", "f", " ", "c", "o", "n", "t", "e", "n", "t", "s">>)
           intro == FirstHeadingContaining(<<"i", "n", "t", "r", "o">>)
       IN  IF toc # 0 THEN StandsInPlaceOf(b, toc)
           ELSE IF intro # 0
           THEN b < Len(transformed) /\ transformed[b + 1].origin = intro
           ELSE b > 1 /\ IsMetadataBlock(transformed[b - 1])

\* C18 as stated: whenever a rendered grand summary is supplied the block
\* with id 'grand-summary' is placed exactly once: in place of the first
\* heading containing 'table of contents', else immediately before the
\* first heading containing 'intro', else immediately after the metadata
\* block.
C18_PlacedExactlyOnce ==
    (Returned("transformTemplate") /\ grandSummaryHTML # <<>>)
      => PlacedByPriority

\* C18 amended: the same for a template that contains at least one
\* heading; in a template without any heading there is no metadata block
\* and the grand-summary block is not placed; without a rendered grand
\* summary no block is placed.
C18_PlacedOnceWhenHeadingExists ==
    Returned("transformTemplate") =>
      /\ (grandSummaryHTML # <<>> /\ HasHeading) => PlacedByPriority
      /\ (grandSummaryHTML # <<>> /\ ~HasHeading) =>
            /\ BlockPositions = {}
            /\ \A j \in 1..Len(transformed) : transformed[j].origin = j
      /\ grandSummaryHTML = <<>> => BlockPositions = {}

\* an introduction stands before the contents heading: the contents
\* heading is the one replaced
C18_Witness ==
    /\ Returned("transformTemplate")
    /\ grandSummaryHTML # <<>>
    /\ Len(htmlContent) = 4
    /\ htmlContent[1].texts = <<<<"T">>>>
    /\ htmlContent[2].texts = <<<<"I", "n", "t", "r", "o", "d", "u", "c", "t", "i", "o", "n">>>>
    /\ htmlContent[3].texts = <<<<"T", "a", "b", "l", "e", " ", "o", "f", " ", "c", "o", "n", "t", "e", "n", "t", "s">>>>
    /\ htmlContent[4].texts = <<<<"A">>>>
    /\ Len(transformed) = 5
    /\ IsMetadataBlock(transformed[2])
    /\ transformed[3].origin = 2
    /\ transformed[4].id = <<"g", "r", "a", "n", "d", "-", "s", "u", "m", "m", "a", "r", "y">>
    /\ transformed[5].origin = 4

----------------------------------------------------------------------------
(* Properties of repeated report generation *)

\* two invocations agree on everything the core operations returned
SameOutputs(a, b) ==
    /\ a.rsIds = b.rsIds
    /\ a.snpResults = b.snpResults
    /\ a.sectionSummaries = b.sectionSummaries
    /\ a.grandSummaryHTML = b.grandSummaryHTML
    /\ a.transformed = b.transformed

----------------------------------------------------------------------------
(* Properties of the genotype file parser *)

\* the fields of line i of the file
FieldsOf(i) == Parts(Trim(fileLines[i]), format[1])

\* line i is a data line with an identifier and a genotype field
IsCall(i) ==
    /\ i > format[1].skipLines
    /\ Trim(fileLines[i]) # <<>>
    /\ Head(Trim(fileLines[i])) # "#"
    /\ Len(FieldsOf(i)) > format[1].allele1Column
    /\ TestRsId(FieldsOf(i)[1])

CallId(i) == ToUpperCase(FieldsOf(i)[1])

\* no later line is about the identifier of line i
IsLastCall(i) ==
    /\ IsCall(i)
    /\ \A j \in (i + 1)..Len(fileLines) : IsCall(j) => CallId(j) # CallId(i)

CombinedMarkers == {<<"-", "-">>, <<"0", "0">>, <<"-">>, <<"0">>}
SeparateMarkers == {<<"0">>, <<"-">>}

Parsed == call = "getSNPResults"

Aggregated == call = "getSNPResults" /\ pc = "return"

StoredAs(id, a1, a2) ==
    /\ id \in DOMAIN geneticData
    /\ geneticData[id].allele1 \in a1
    /\ geneticData[id].allele2 \in a2

ClassifiedMissing(id) ==
    Aggregated => /\ MapHas(results, id)
                  /\ MapGet(results, id)[1].zygosity = "Data Missing"

AnyAllele == {geneticData[k].allele1 : k \in DOMAIN geneticData}
               \cup {geneticData[k].allele2 : k \in DOMAIN geneticData}

\* C20: the parser stores every allele-missing marker as '-': in a
\* combined genotype column '--', '00', '-' and '0', in separate allele
\* columns '0' and '-'; no stored allele of a missing call is '0', and
\* determineZygosity classifies every such entry as Data Missing.
C20_MissingMarkersCanonical ==
    Parsed =>
      \A i \in 1..Len(fileLines) :
        IsLastCall(i) =>
          IF format[1].allele2Column = <<>>
          THEN FieldsOf(i)[4] \in CombinedMarkers =>
                 /\ StoredAs(CallId(i), {<<"-">>}, {<<"-">>})
                 /\ ClassifiedMissing(CallId(i))
          ELSE Len(FieldsOf(i)) > 4 =>
                 /\ FieldsOf(i)[4] \in SeparateMarkers =>
                       /\ StoredAs(CallId(i), {<<"-">>}, AnyAllele)
                       /\ ClassifiedMissing(CallId(i))
                 /\ FieldsOf(i)[5] \in SeparateMarkers =>
                       /\ StoredAs(CallId(i), AnyAllele, {<<"-">>})
                       /\ ClassifiedMissing(CallId(i))

----------------------------------------------------------------------------
(* Properties of templates without structural anchors *)

\* the nodes of the output that were parsed from element i of the template
NodesOf(i) == {j \in 1..Len(transformed) : transformed[j].origin = i}

\* every element of the template is in the output once, in template order
ElementsKept ==
    /\ \A i \in 1..Len(htmlContent) : Cardinality(NodesOf(i)) = 1
    /\ \A j, k \in 1..Len(transformed) :
          (j < k /\ transformed[j].origin > 0 /\ transformed[k].origin > 0)
            => transformed[j].origin < transformed[k].origin

MetadataPositions ==
    {j \in 1..Len(transformed) : IsMetadataBlock(transformed[j])}

\* the identifiers of a text, upper case
IdentifiersIn(t) ==
    {ToUpperCase(SubSeq(t, x[1], x[2] - 1)) :
        x \in {y \in (1..Len(t)) \X (1..(Len(t) + 1)) :
                  IsIdentifierAt(t, y[1], y[2])}}

\* substitution: every text node of the element carries its annotations
Substituted(node) ==
    /\ Len(node.html) = Len(SourceOf(node).texts)
    /\ \A k \in 1..Len(node.html) :
          node.html[k] = ExpectedMarkup(SourceOf(node).texts[k], 1)

\* suppression, for a list item of one text node: hidden exactly when the
\* filter is on and all its identifiers are Wild or Data Missing
Suppressed(node) ==
    (IsSubsection(SourceOf(node)) /\ Len(SourceOf(node).texts) = 1
       /\ IdentifiersIn(SourceOf(node).texts[1]) # {})
      => (node.display = "none" <=>
            /\ ~showAllSubsections
            /\ \A id \in IdentifiersIn(SourceOf(node).texts[1]) :
                  StateOf(id) \in {"Wild", "Data Missing"})

\* emphasis: a list item with identifiers whose first text node holds
\* none has that node's first line in bold; a 'SNPs:' label is bold, a
\* 'Follow-up Labs:' label is in italics
Emphasized(node) ==
    LET src == SourceOf(node)
    IN  /\ (/\ IsSubsection(src)
             /\ Len(src.texts) > 1
             /\ IdentifiersIn(src.texts[1]) = {}
             /\ IdentifiersIn(src.texts[2]) # {}
             /\ src.texts[1][1] \notin WhiteSpace)
              => /\ node.strong # <<>>
                 /\ "\n" \notin {node.strong[q] : q \in 1..Len(node.strong)}
                 /\ \E rest \in {SubSeq(src.texts[1], q, Len(src.texts[1])) :
                                    q \in 1..(Len(src.texts[1]) + 1)} :
                       /\ src.texts[1] = node.strong \o rest
                       /\ rest = <<>> \/ Head(rest) = "\n"
        /\ (\E k \in 1..Len(src.texts) :
               ContainsWords(src.texts[k], <<"s", "n", "p", "s", ":">>)
               /\ ~ContainsWords(src.texts[k], <<"x", "s", "n", "p", "s", ":">>))
              => \E h \in 1..Len(node.emphasis) :
                    /\ node.emphasis[h].tag = "strong"
                    /\ ContainsWords(node.emphasis[h].text, <<"s", "n", "p", "s", ":">>)
        /\ (\E k \in 1..Len(src.texts) :
               ContainsWords(src.texts[k], <<"f", "o", "l", "l", "o", "w", "-", "u", "p", " ", " ", "l", "a", "b", "s", ":">>))
              => \E h \in 1..Len(node.emphasis) :
                    /\ node.emphasis[h].tag = "em"
                    /\ ContainsWords(node.emphasis[h].text,
                                     <<"f", "o", "l", "l", "o", "w", "-", "u", "p", " ", " ", "l", "a", "b", "s", ":">>)

AnchorsAbsent ==
    /\ FirstHeadingContaining(<<"t", "a", "b", "l", "e", " ", "o", "f", " ", "c", "o", "n", "t", "e", "n", "t", "s">>) = 0
    /\ FirstHeadingContaining(<<"i", "n", "t", "r", "o">>) = 0

\* C21: transformTemplate returns normally on a template without any
\* heading, or without a contents heading and an introduction; it leaves
\* out only the insertions whose anchor is missing (without a heading the
\* metadata block and the grand summary), keeps every element, and still
\* substitutes identifiers, suppresses subsections and emphasizes.
C21_MissingAnchorsTolerated ==
    (call = "transformTemplate" /\ AnchorsAbsent) =>
      /\ pc \in {"entry", "return"}
      /\ pc = "return" =>
            /\ ElementsKept
            /\ ~HasHeading =>
                  /\ Len(transformed) = Len(htmlContent)
                  /\ MetadataPositions = {}
                  /\ BlockPositions = {}
            /\ HasHeading =>
                  /\ Cardinality(MetadataPositions) = 1
                  /\ Cardinality(BlockPositions)
                        = IF grandSummaryHTML = <<>> THEN 0 ELSE 1
                  /\ \A b \in BlockPositions :
                        b > 1 /\ IsMetadataBlock(transformed[b - 1])
            /\ \A j \in 1..Len(transformed) :
                  transformed[j].origin > 0 =>
                    /\ Substituted(transformed[j])
                    /\ Suppressed(transformed[j])
                    /\ Emphasized(transformed[j])

\* no heading at all and a grand summary supplied: nothing is inserted,
\* the Wild item is hidden, the other has its lead line and label bold
C21_Witness ==
    /\ Returned("transformTemplate")
    /\ ~HasHeading
    /\ grandSummaryHTML # <<>>
    /\ ~showAllSubsections
    /\ Len(htmlContent) = 3
    /\ Len(transformed) = 3
    /\ htmlContent[1].texts = <<<<"r", "s", "1">>>>
    /\ transformed[1].texts = <<<<"r", "s", "1", " ", "W", "i", "l", "d">>>>
    /\ transformed[1].display = "none"
    /\ htmlContent[2].texts = <<<<"T", "\n", "u">>, <<"S", "N", "P", "s", ":", " ", "R", "S", "2">>>>
    /\ StateOf(<<"R", "S", "2">>) = "Homozygous"
    /\ transformed[2].display = ""
    /\ transformed[2].strong = <<"T">>
    /\ transformed[2].emphasis = <<[tag |-> "strong", text |-> <<"S", "N", "P", "s", ":", " ">>]>>
    /\ transformed[3].emphasis
          = <<[tag |-> "em", text |-> <<"F", "o", "l", "l", "o", "w", "-", "u", "p", " ", " ", "l", "a", "b", "s", ":">>]>>


----------------------------------------------------------------------------
(* Properties of the App *)

\* the parse started by the most recent selection
LastParse == parses[Len(parses)]

NoParsePending ==
    \A i \in 1..Len(parses) : parses[i].promise # "pending"

\* C22: when the format of the selected file cannot be determined,
\* parseGeneticDataFile rejects and parseGeneticDataString throws, and once
\* the parse of that file has ended in the App no genotype map is loaded,
\* no report is shown and report generation is disabled.
C22_UndetectableFormatLoadsNothing ==
    (/\ call = "App"
     /\ parses # <<>>
     /\ detectFileFormat(LastParse.file.lines) = <<>>) =>
        /\ parseGeneticDataFile(LastParse.file.lines, TRUE).rejected
        /\ parseGeneticDataString(LastParse.file.lines).threw
        /\ LastParse.promise # "pending" =>
              /\ LastParse.promise = "rejected"
              /\ app.geneticData = <<>>
              /\ app.transformedHtml = <<>>
              /\ ~canGenerate

\* C23: once no parse is pending, the loaded genotype map and its date are
\* those parsed from the most recently selected file, the one shown as
\* geneticDataFile, and no map is loaded if the parse of that file failed.
C23_LoadedDataIsOfSelectedFile ==
    (call = "App" /\ parses # <<>> /\ NoParsePending) =>
        /\ app.geneticDataFile = <<LastParse.file.name>>
        /\ IF LastParse.promise = "rejected"
           THEN app.geneticData = <<>> /\ app.geneticDataDate = Undefined
           ELSE /\ app.geneticData =
                     <<parseGeneticDataFile(LastParse.file.lines, TRUE).data>>
                /\ app.geneticDataDate =
                     parseGeneticDataFile(LastParse.file.lines, TRUE).date

\* C24: a displayed report was generated from the template content and
\* the genotype map that are loaded now.
C24_ReportIsOfLoadedInputs ==
    (call = "App" /\ app.transformedHtml # <<>>) =>
        /\ previous # <<>>
        /\ previous[1].templateContent = app.templateContent
        /\ previous[1].geneticData = app.geneticData


----------------------------------------------------------------------------
(* Properties of the report pipeline *)

Generated == call = "handleGenerateReport" /\ pc = "return"

CountSum(s) ==
    s.homozygousCount + s.heterozygousCount + s.wildCount + s.missingCount
        + s.referenceMissingCount

\* the numerator of a percentage over the denominator totalCount
Over(percent, totalCount) == percent.num * (totalCount \div percent.den)

PercentSumIs100(s) ==
    Over(s.homozygousPercent, s.totalCount)
      + Over(s.heterozygousPercent, s.totalCount)
      + Over(s.wildPercent, s.totalCount)
      + Over(s.missingPercent, s.totalCount)
      + Over(s.referenceMissingPercent, s.totalCount) = 100 * s.totalCount

\* C25: in the report pipeline every emitted section summary has counts
\* of the five states that add up to its totalCount, and percentages that
\* add up to 100.
C25_CountsAddUpToTotal ==
    Generated =>
      \A k \in 1..Len(sectionSummaries) :
        /\ CountSum(sectionSummaries[k]) = sectionSummaries[k].totalCount
        /\ PercentSumIs100(sectionSummaries[k])


\* the headings of the output that carry the id a link points to
HeadingsWithId(href) ==
    {i \in 1..Len(transformed) :
        /\ IsHeading(transformed[i])
        /\ transformed[i].id # <<>>
        /\ <<"#">> \o transformed[i].id = href}

\* C26: in the report pipeline every section link of the grand summary
\* points to the id of exactly one heading of the transformed document.
C26_LinkHasOneHeading ==
    Generated =>
      \A k \in 1..Len(Rows) : Cardinality(HeadingsWithId(Rows[k].href)) = 1


----------------------------------------------------------------------------
(* Properties of the section headings and the emphasis *)

IsReturnLink(node) == node.href = <<"#", "g", "r", "a", "n", "d", "-", "s", "u", "m", "m", "a", "r", "y">>

\* a return link stands right before node i of the output
ReturnLinkBefore(i) == i > 1 /\ IsReturnLink(transformed[i - 1])

\* an h3 whose text contains 'intro'
IsIntroHeading(node) == node.tag = "h3" /\ IsIntro(TextContent(node))

\* an h3 whose text does not contain 'intro'
IsSectionHeading(node) == node.tag = "h3" /\ ~IsIntro(TextContent(node))

IsFirstSectionHeading(i) ==
    /\ IsSectionHeading(transformed[i])
    /\ \A j \in 1..(i - 1) : ~IsSectionHeading(transformed[j])

\* C27: the first section heading of the output is not preceded by a
\* return link, every other section heading is immediately preceded by
\* exactly one link to '#grand-summary', and an intro heading has neither
\* an id nor a link.
C27_ReturnLinksBeforeLaterSections ==
    Returned("transformTemplate") =>
      \A i \in 1..Len(transformed) :
        /\ IsFirstSectionHeading(i) => ~ReturnLinkBefore(i)
        /\ (IsSectionHeading(transformed[i]) /\ ~IsFirstSectionHeading(i)) =>
              /\ ReturnLinkBefore(i)
              /\ ~ReturnLinkBefore(i - 1)
        /\ IsIntroHeading(transformed[i]) =>
              /\ transformed[i].id = <<>>
              /\ ~ReturnLinkBefore(i)


\* the subsection a node of the output was parsed from holds an identifier
HoldsIdentifier(node) ==
    \E k \in 1..Len(SourceOf(node).texts) :
        IdentifiersIn(SourceOf(node).texts[k]) # {}

\* C28: the lead line is emphasised in exactly the subsections that hold
\* an identifier and are not suppressed; the emphasis is the text of the
\* subsection up to its first line break.
C28_LeadLineOfShownSubsections ==
    Returned("transformTemplate") =>
      \A j \in 1..Len(transformed) :
        transformed[j].origin > 0 =>
          /\ transformed[j].strong # <<>> <=>
                /\ IsSubsection(SourceOf(transformed[j]))
                /\ HoldsIdentifier(transformed[j])
                /\ transformed[j].display # "none"
          /\ transformed[j].strong # <<>> =>
                transformed[j].strong = FirstLine(transformed[j].texts[1])


----------------------------------------------------------------------------
(* Properties of the metadata block *)

Level(el) == CHOOSE l \in 1..6 : el.tag = HeadingTags[l]

\* the first heading element of the template in document order
IsFirstHeading(i) ==
    /\ i \in 1..Len(htmlContent)
    /\ IsHeading(htmlContent[i])
    /\ \A j \in 1..(i - 1) : ~IsHeading(htmlContent[j])

\* the first element of the highest heading level that the template has
IsTitle(i) ==
    /\ i \in 1..Len(htmlContent)
    /\ IsHeading(htmlContent[i])
    /\ \A j \in 1..Len(htmlContent) :
          IsHeading(htmlContent[j]) =>
            \/ Level(htmlContent[j]) > Level(htmlContent[i])
            \/ Level(htmlContent[j]) = Level(htmlContent[i]) /\ j >= i

\* the items of a metadata block, label and value in turn
HasItem(node, label, value) ==
    \E k \in 1..(Len(node.texts) - 1) :
        /\ k % 2 = 1
        /\ node.texts[k] = label
        /\ node.texts[k + 1] = <<" ">> \o value

HasLabel(node, label) ==
    \E k \in 1..Len(node.texts) : k % 2 = 1 /\ node.texts[k] = label

\* the report date always, the file name and the genome date exactly when
\* they are supplied
MetadataContents(node) ==
    /\ HasItem(node, <<"R", "e", "p", "o", "r", "t", " ", "G", "e", "n", "e", "r", "a", "t", "e", "d", ":">>, ToLocaleDateString(now))
    /\ HasLabel(node, <<"G", "e", "n", "o", "m", "e", " ", "F", "i", "l", "e", ":">>) <=> genomeFilename # Undefined
    /\ genomeFilename # Undefined =>
          HasItem(node, <<"G", "e", "n", "o", "m", "e", " ", "F", "i", "l", "e", ":">>, genomeFilename)
    /\ HasLabel(node, <<"G", "e", "n", "o", "m", "e", " ", "D", "a", "t", "e", ":">>) <=> genomeDate # Undefined
    /\ genomeDate # Undefined => HasItem(node, <<"G", "e", "n", "o", "m", "e", " ", "D", "a", "t", "e", ":">>, genomeDate)
    /\ Len(node.texts) = 2 + (IF genomeFilename # Undefined THEN 2 ELSE 0)
                           + (IF genomeDate # Undefined THEN 2 ELSE 0)

\* C29 as stated: a template with a heading gets exactly one metadata
\* block, immediately after its first heading element in document order,
\* with the report date and with the file name and the genome date exactly
\* when they are supplied.
C29_MetadataAfterFirstHeading ==
    (Returned("transformTemplate") /\ HasHeading) =>
      /\ Cardinality(MetadataPositions) = 1
      /\ \A b \in MetadataPositions :
            /\ b > 1
            /\ IsFirstHeading(transformed[b - 1].origin)
            /\ MetadataContents(transformed[b])

\* C29 amended: a template with a heading gets exactly one metadata block,
\* inserted immediately after its title, the first element of the highest
\* heading level present (the first h1, without an h1 the first h2, and so
\* on); when the title is the contents heading that the grand summary
\* replaces, the block follows the grand-summary block that stands in the
\* title's place.  The block holds the report date, and the file name and
\* the genome date exactly when they are supplied.
C29_MetadataAfterTitle ==
    (Returned("transformTemplate") /\ HasHeading) =>
      /\ Cardinality(MetadataPositions) = 1
      /\ \A b \in MetadataPositions :
            /\ b > 1
            /\ \/ transformed[b - 1].origin > 0
                    /\ IsTitle(transformed[b - 1].origin)
               \/ /\ transformed[b - 1].id = <<"g", "r", "a", "n", "d", "-", "s", "u", "m", "m", "a", "r", "y">>
                  /\ \E i \in 1..Len(htmlContent) :
                        /\ IsTitle(i)
                        /\ Includes(ToLowerCase(Trim(TextContent(htmlContent[i]))), <<"t", "a", "b", "l", "e", " ", "o", "f", " ", "c", "o", "n", "t", "e", "n", "t", "s">>)
                        /\ StandsInPlaceOf(b - 1, i)
            /\ MetadataContents(transformed[b])

\* an h2 stands before the title h1; the file name is supplied and the
\* genome date is not
C29_Witness ==
    /\ Returned("transformTemplate")
    /\ Len(htmlContent) = 2
    /\ htmlContent[1].tag = "h2"
    /\ htmlContent[2].tag = "h1"
    /\ genomeFilename = <<"f">>
    /\ genomeDate = Undefined
    /\ grandSummaryHTML = <<>>
    /\ Len(transformed) = 3
    /\ transformed[2].origin = 2
    /\ IsMetadataBlock(transformed[3])
    /\ transformed[3].texts[1] = <<"G", "e", "n", "o", "m", "e", " ", "F", "i", "l", "e", ":">>
    /\ transformed[3].texts[2] = <<" ", "f">>
    /\ Len(transformed[3].texts) = 4

-----------------------------------------------------------------------------
(* Properties of the results of getSNPResults *)

\* the genotype entry that getSNPResults reads for the result stored under key
GenotypeOf(key) == GeneticDataGet(geneticData, key)

HasBothAlleles(key) ==
    /\ GenotypeOf(key) # <<>>
    /\ ~IsMissingAllele(GenotypeOf(key)[1].allele1)
    /\ ~IsMissingAllele(GenotypeOf(key)[1].allele2)

\* the state that two observed alleles have against an effect allele
StateAgainst(a1, a2, effect) ==
    LET m1 == ToUpperCase(a1) = ToUpperCase(effect)
        m2 == ToUpperCase(a2) = ToUpperCase(effect)
    IN  IF m1 /\ m2 THEN "Homozygous"
        ELSE IF m1 \/ m2 THEN "Heterozygous"
        ELSE "Wild"

Classified == {"Homozygous", "Heterozygous", "Wild"}

====
